---- MODULE Spec2Model ----
(***************************************************************************)
(* A model of pellucid-labeling-api/privacy_service.py: the PrivacyService *)
(* (pattern and model detection, overlap resolution, the token vault, the  *)
(* format-preserving substitution and sanitize_text).                      *)
(*                                                                         *)
(* A text is a sequence of one-character strings.  Offsets are Python's:   *)
(* 0-based, a span is the half-open range [start, end).  Confidences are   *)
(* in hundredths (0.95 is 95).                                             *)
(***************************************************************************)
EXTENDS Integers, Sequences, FiniteSets, TLC

\* ------------------------------------------------------------ characters

DigitChars == <<"0", "1", "2", "3", "4", "5", "6", "7", "8", "9">>
UpperChars == <<"A", "B", "C", "D", "E", "F", "G", "H", "I", "J", "K", "L", "M",
                "N", "O", "P", "Q", "R", "S", "T", "U", "V", "W", "X", "Y", "Z">>
LowerChars == <<"a", "b", "c", "d", "e", "f", "g", "h", "i", "j", "k", "l", "m",
                "n", "o", "p", "q", "r", "s", "t", "u", "v", "w", "x", "y", "z">>
OtherChars == <<" ", "-", ".", "@", "$", "%", "(", ")", "+", ",", ":", "<", ">",
                "_", "|">>
Alphabet == DigitChars \o UpperChars \o LowerChars \o OtherChars

\* Body applied to the value of v: a local variable that is assigned once
\* and then read.
With(v, Body(_)) == CHOOSE r \in {Body(x) : x \in {v}} : TRUE

Range(s) == {s[i] : i \in 1..Len(s)}
Digits == Range(DigitChars)
Uppers == Range(UpperChars)
Lowers == Range(LowerChars)
Letters == Uppers \cup Lowers

\* The position of a character in a table (0 when it is not there).
IndexIn(table, c) ==
    IF c \in Range(table) THEN CHOOSE i \in 1..Len(table) : table[i] = c ELSE 0

\* int(d) of a digit character.
DigitVal(c) == IndexIn(DigitChars, c) - 1

\* str(n) of a number 0..9.
DigitStr(n) == DigitChars[n + 1]

\* str.lower() of one character and of a text.
LowerChar(c) == IF c \in Uppers THEN LowerChars[IndexIn(UpperChars, c)] ELSE c
Lower(t) == [i \in 1..Len(t) |-> LowerChar(t[i])]

\* The character at Python offset p, "" outside the text.
Ch(t, p) == IF p >= 0 /\ p < Len(t) THEN t[p + 1] ELSE ""

\* text[a:b] for offsets a, b >= 0: a slice is clipped to the text.
Slice(t, a, b) ==
    LET lo == IF a > Len(t) THEN Len(t) ELSE a
        hi == IF b > Len(t) THEN Len(t) ELSE b
    IN  IF lo >= hi THEN <<>> ELSE SubSeq(t, lo + 1, hi)

\* The regex classes used by the patterns.
WordClass == Letters \cup Digits \cup {"_"}
SepClass == {"-", ".", " "}
LocalClass == Letters \cup Digits \cup {".", "_", "%", "+", "-"}
DomainClass == Letters \cup Digits \cup {".", "-"}
TldClass == Letters \cup {"|"}

\* \b at offset p: exactly one of the characters on its two sides is a word
\* character.
WordBoundary(t, p) ==
    With(p, LAMBDA q : (Ch(t, q - 1) \in WordClass) # (Ch(t, q) \in WordClass))

\* The length of the longest run of characters of cls starting at offset p.
RECURSIVE RunLen(_, _, _)
RunLen(t, p, cls) == IF Ch(t, p) \in cls THEN 1 + RunLen(t, p + 1, cls) ELSE 0

\* x{n} at offset p: the offset after it, or -1.
Exactly(t, p, cls, n) ==
    With(p, LAMBDA q : IF q >= 0 /\ RunLen(t, q, cls) >= n THEN q + n ELSE -1)

\* x? (greedy) at offset p, where what follows cannot start with x.
Opt(t, p, cls) ==
    With(p, LAMBDA q : IF q < 0 THEN -1 ELSE IF Ch(t, q) \in cls THEN q + 1 ELSE q)

\* One given character at offset p.
Lit(t, p, c) == With(p, LAMBDA q : IF q >= 0 /\ Ch(t, q) = c THEN q + 1 ELSE -1)

Max(S) == With(S, LAMBDA T : CHOOSE x \in T : \A y \in T : y <= x)
Min(S) == With(S, LAMBDA T : CHOOSE x \in T : \A y \in T : x <= y)

\* ------------------------------------------------------- pattern detector
\* Each pattern is modelled by the offset at which Python's re ends its match
\* when the match starts at offset p (-1: no match at p), with the engine's
\* greedy choices and backtracking order.

\* (\+?1[-.\s]?)
PhoneGroupEnd(t, p) == Opt(t, Lit(t, Opt(t, p, {"+"}), "1"), SepClass)

\* \(?([0-9]{3})\)?[-.\s]?([0-9]{3})[-.\s]?([0-9]{4})
PhoneRestEnd(t, p) ==
    LET area == Opt(t, Exactly(t, Opt(t, p, {"("}), Digits, 3), {")"})
        exch == Exactly(t, Opt(t, area, SepClass), Digits, 3)
    IN  Exactly(t, Opt(t, exch, SepClass), Digits, 4)

\* EntityType.PHONE: the optional country-code group is tried first, and
\* dropped when the rest does not match after it.
PhoneEnd(t, p) ==
    With(PhoneRestEnd(t, PhoneGroupEnd(t, p)), LAMBDA e :
        IF e # -1 THEN e ELSE PhoneRestEnd(t, p))

\* EntityType.SSN: \b\d{3}-?\d{2}-?\d{4}\b
SsnEnd(t, p) ==
    LET a == Opt(t, Exactly(t, p, Digits, 3), {"-"})
        b == Opt(t, Exactly(t, a, Digits, 2), {"-"})
    IN  With(Exactly(t, b, Digits, 4), LAMBDA e :
            IF WordBoundary(t, p) /\ e # -1 /\ WordBoundary(t, e) THEN e ELSE -1)

\* EntityType.CREDIT_CARD: the alternatives in the order the engine tries
\* them, each followed by \b.
CardAlternatives(t, p) ==
    LET visa == Exactly(t, Lit(t, p, "4"), Digits, 12)
        mc == Exactly(t, Exactly(t, Lit(t, p, "5"), {"1", "2", "3", "4", "5"}, 1),
                      Digits, 14)
        amex == Exactly(t, Exactly(t, Lit(t, p, "3"), {"4", "7"}, 1), Digits, 13)
        diners == Exactly(t, Lit(t, p, "3"), Digits, 13)
        six == Lit(t, p, "6")
        disc1 == Lit(t, Lit(t, Lit(t, six, "0"), "1"), "1")
        disc2 == Exactly(t, Lit(t, six, "5"), Digits, 2)
    IN  << Exactly(t, visa, Digits, 3), visa, mc, amex, diners,
           Exactly(t, disc1, Digits, 12), Exactly(t, disc2, Digits, 12) >>

CardEnd(t, p) ==
    IF ~WordBoundary(t, p) THEN -1
    ELSE With(CardAlternatives(t, p), LAMBDA alts :
             With({i \in 1..Len(alts) : alts[i] # -1 /\ WordBoundary(t, alts[i])},
                  LAMBDA ok : IF ok # {} THEN alts[Min(ok)] ELSE -1))

\* (?:,\d{3})*
RECURSIVE MoneyGroupsEnd(_, _)
MoneyGroupsEnd(t, p) ==
    IF Ch(t, p) = "," /\ RunLen(t, p + 1, Digits) >= 3
    THEN MoneyGroupsEnd(t, p + 4) ELSE p

\* EntityType.MONEY: \$\d+(?:,\d{3})*(?:\.\d{2})?
MoneyEnd(t, p) ==
    With(RunLen(t, p + 1, Digits), LAMBDA n :
        IF Ch(t, p) = "$" /\ n >= 1
        THEN With(MoneyGroupsEnd(t, p + 1 + n), LAMBDA g :
                 IF Ch(t, g) = "." /\ RunLen(t, g + 1, Digits) >= 2 THEN g + 3 ELSE g)
        ELSE -1)

\* EntityType.PERCENT: \b\d+(?:\.\d+)?%\b
PercentEnd(t, p) ==
    With(RunLen(t, p, Digits), LAMBDA n :
        With(RunLen(t, p + n + 1, Digits), LAMBDA f :
            With(Lit(t, IF Ch(t, p + n) = "." /\ f >= 1 THEN p + n + 1 + f ELSE p + n,
                     "%"),
                 LAMBDA e : IF WordBoundary(t, p) /\ n >= 1 /\ e # -1
                                   /\ WordBoundary(t, e)
                            THEN e ELSE -1)))

\* EntityType.EMAIL: \b[A-Za-z0-9._%+-]+@[A-Za-z0-9.-]+\.[A-Z|a-z]{2,}\b
\* The local part is the whole run before "@"; the domain gives characters
\* back until a "." follows it, and the top-level part until \b holds.
EmailEnd(t, p) ==
    With(RunLen(t, p, LocalClass), LAMBDA n :
        LET q == p + n + 1
            tldEnds(d) == {q + d + 1 + m : m \in 2..RunLen(t, q + d + 1, TldClass)}
            ends(d) == {e \in tldEnds(d) : WordBoundary(t, e)}
        IN  IF WordBoundary(t, p) /\ n >= 1 /\ Ch(t, p + n) = "@"
            THEN With({d \in 1..RunLen(t, q, DomainClass) :
                          Ch(t, q + d) = "." /\ ends(d) # {}},
                      LAMBDA doms : IF doms # {} THEN Max(ends(Max(doms))) ELSE -1)
            ELSE -1)

\* self.patterns, in the dictionary's order.
patterns == <<"EMAIL", "PHONE", "CREDIT_CARD", "SSN", "MONEY", "PERCENT">>

PatternEnd(ty, t, p) ==
    CASE ty = "EMAIL" -> EmailEnd(t, p)
      [] ty = "PHONE" -> PhoneEnd(t, p)
      [] ty = "CREDIT_CARD" -> CardEnd(t, p)
      [] ty = "SSN" -> SsnEnd(t, p)
      [] ty = "MONEY" -> MoneyEnd(t, p)
      [] ty = "PERCENT" -> PercentEnd(t, p)

\* pattern.finditer(text): the leftmost match at or after pos, then on from
\* its end.
RECURSIVE Finditer(_, _, _)
Finditer(ty, t, pos) ==
    With({p \in pos..(Len(t) - 1) : PatternEnd(ty, t, p) # -1}, LAMBDA starts :
        IF starts = {} THEN <<>>
        ELSE With(Min(starts), LAMBDA p :
                 With(PatternEnd(ty, t, p), LAMBDA e :
                     <<[start |-> p, end |-> e]>>
                         \o Finditer(ty, t, IF e > p THEN e ELSE p + 1))))

\* ------------------------------------------------------------ vocabulary

\* class EntityType: the members' values, in declaration order.
EntityType == <<"PERSON", "EMAIL", "PHONE", "CREDIT_CARD", "SSN", "ADDRESS",
                "ORG", "GPE", "DATE", "TIME", "MONEY", "PERCENT">>

\* entity_type.value as text.
EntityValue ==
    [PERSON |-> <<"P", "E", "R", "S", "O", "N">>,
     EMAIL |-> <<"E", "M", "A", "I", "L">>,
     PHONE |-> <<"P", "H", "O", "N", "E">>,
     CREDIT_CARD |-> <<"C", "R", "E", "D", "I", "T", "_", "C", "A", "R", "D">>,
     SSN |-> <<"S", "S", "N">>,
     ADDRESS |-> <<"A", "D", "D", "R", "E", "S", "S">>,
     ORG |-> <<"O", "R", "G">>,
     GPE |-> <<"G", "P", "E">>,
     DATE |-> <<"D", "A", "T", "E">>,
     TIME |-> <<"T", "I", "M", "E">>,
     MONEY |-> <<"M", "O", "N", "E", "Y">>,
     PERCENT |-> <<"P", "E", "R", "C", "E", "N", "T">>]

\* class PrivacyLevel
PrivacyLevel == {"minimal", "standard", "strict"}

\* A faulty configuration: the standard level lacks the PHONE type that the
\* minimal level has.
privacy_configs_unnested ==
    [minimal |-> [entities |-> <<"EMAIL", "PHONE", "CREDIT_CARD", "SSN">>,
                  confidence_threshold |-> 80],
     standard |-> [entities |-> <<"PERSON", "EMAIL", "CREDIT_CARD",
                                  "SSN", "ADDRESS", "ORG">>,
                   confidence_threshold |-> 70],
     strict |-> [entities |-> EntityType, confidence_threshold |-> 60]]

\* self.privacy_configs
privacy_configs ==
    [minimal |-> [entities |-> <<"EMAIL", "PHONE", "CREDIT_CARD", "SSN">>,
                  confidence_threshold |-> 80],
     standard |-> [entities |-> <<"PERSON", "EMAIL", "PHONE", "CREDIT_CARD",
                                  "SSN", "ADDRESS", "ORG">>,
                   confidence_threshold |-> 70],
     strict |-> [entities |-> EntityType, confidence_threshold |-> 60]]

\* The confidence given to a model span and to a pattern span.
ModelConfidence == 90
PatternConfidence == 95

\* The number of hexadecimal characters kept of the digest.
TokenHexLen == 8

\* ------------------------------------------------------- token derivation

HexChars == <<"0", "1", "2", "3", "4", "5", "6", "7", "8", "9",
              "a", "b", "c", "d", "e", "f">>

\* A keyed digest standing for HMAC-SHA256: a value that depends on every
\* character of the key and of the message, in order.
RECURSIVE Mix(_, _, _, _)
Mix(acc, mult, t, i) ==
    IF i > Len(t) THEN acc
    ELSE Mix((acc * mult + IndexIn(Alphabet, t[i]) + 1) % 65536, mult, t, i + 1)

Hex4(n) ==
    With(n, LAMBDA v :
        << HexChars[((v \div 4096) % 16) + 1], HexChars[((v \div 256) % 16) + 1],
           HexChars[((v \div 16) % 16) + 1], HexChars[(v % 16) + 1] >>)

\* hmac.new(key, message, sha256).hexdigest()
HmacHexDigest(key, message) ==
    With(message, LAMBDA msg :
        Hex4(Mix(Mix(7, 31, key, 1), 31, msg, 1))
            \o Hex4(Mix(Mix(11, 37, key, 1), 37, msg, 1)))

\* A faulty key: the value is not lowered.
VaultKeyCased(original_text, entity_type) ==
    EntityValue[entity_type] \o <<":">> \o original_text

\* f"{entity_type.value}:{original_text.lower()}", the message that is signed
\* and the key of the token map.
VaultKey(original_text, entity_type) ==
    EntityValue[entity_type] \o <<":">> \o Lower(original_text)

\* A faulty derivation: the value is signed as it is spelled.
generate_deterministic_token_cased(key, original_text, entity_type) ==
    LET message == VaultKeyCased(original_text, entity_type)
        token == SubSeq(HmacHexDigest(key, message), 1, TokenHexLen)
    IN  <<"<">> \o EntityValue[entity_type] \o <<":">> \o token \o <<">">>

\* generate_deterministic_token: "<TYPE:" and the first TokenHexLen characters
\* of the digest and ">".
generate_deterministic_token(key, original_text, entity_type) ==
    LET message == VaultKey(original_text, entity_type)
        token == SubSeq(HmacHexDigest(key, message), 1, TokenHexLen)
    IN  <<"<">> \o EntityValue[entity_type] \o <<":">> \o token \o <<">">>

\* ------------------------------------------------------------ the vault
\* The vault of one service is the record [token_map, store, disk]: the
\* mapping in memory, the mapping in token_map.json, and whether the file can
\* be opened for writing ("ok") or not ("readonly").  An operation gives
\* back the vault after it, what it returns, and the exception it raises
\* (NoException when it returns).

NoMap == <<>>

NoException == "none"

\* m with m[k] = v.
Put(m, k, v) == [x \in DOMAIN m \cup {k} |-> IF x = k THEN v ELSE m[x]]

\* A faulty save: the file is left as it is.
save_token_map_skipped(vault) == vault

\* open("token_map.json", "w") raises OSError when the file cannot be opened
\* for writing; the file is then as it was.
SaveRaises(vault) == vault.disk # "ok"

\* save_token_map: the file is rewritten with the whole mapping, unless open
\* raises.  (A write to a file that has been opened is taken to succeed.)
save_token_map(vault) ==
    IF SaveRaises(vault) THEN vault ELSE [vault EXCEPT !.store = vault.token_map]

\* load_token_map: the file's mapping (an absent file holds the empty one).
load_token_map(vault) == [vault EXCEPT !.token_map = vault.store]

\* A faulty vault: what it keeps for a new key is the derived token without
\* its closing bracket, while it returns the derived token.
get_or_create_replacement_truncating(vault, key, original_text, entity_type) ==
    With(VaultKey(original_text, entity_type), LAMBDA k :
        LET derived == generate_deterministic_token(key, original_text, entity_type)
        IN  IF k \notin DOMAIN vault.token_map
            THEN [vault |-> save_token_map(
                      [vault EXCEPT !.token_map =
                          Put(vault.token_map, k, SubSeq(derived, 1, Len(derived) - 1))]),
                  ret |-> derived, raised |-> NoException]
            ELSE [vault |-> vault, ret |-> vault.token_map[k],
                  raised |-> NoException])

\* A faulty vault: it derives and stores the token on every call.
get_or_create_replacement_overwriting(vault, key, original_text, entity_type) ==
    With(VaultKey(original_text, entity_type), LAMBDA k :
        LET derived == generate_deterministic_token(key, original_text, entity_type)
        IN  [vault |-> save_token_map(
                 [vault EXCEPT !.token_map = Put(vault.token_map, k, derived)]),
             ret |-> derived, raised |-> NoException])

\* A faulty vault: it writes the file before it puts the new entry in the
\* mapping, so the file is one entry behind.
get_or_create_replacement_saving_first(vault, key, original_text, entity_type) ==
    With(VaultKey(original_text, entity_type), LAMBDA k :
        LET derived == generate_deterministic_token(key, original_text, entity_type)
        IN  IF k \notin DOMAIN vault.token_map
            THEN [vault |-> [save_token_map(vault) EXCEPT !.token_map =
                                 Put(vault.token_map, k, derived)],
                  ret |-> derived, raised |-> NoException]
            ELSE [vault |-> vault, ret |-> vault.token_map[k],
                  raised |-> NoException])

\* get_or_create_replacement: the vault after the call and the token
\* returned.  When save_token_map raises, the new entry is in the mapping in
\* memory already and the call raises.
get_or_create_replacement(vault, key, original_text, entity_type) ==
    With(VaultKey(original_text, entity_type), LAMBDA k :
        LET derived == generate_deterministic_token(key, original_text, entity_type)
        IN  With(IF k \notin DOMAIN vault.token_map
                 THEN save_token_map(
                          [vault EXCEPT !.token_map = Put(vault.token_map, k, derived)])
                 ELSE vault,
                 LAMBDA after :
                    IF k \notin DOMAIN vault.token_map /\ SaveRaises(vault)
                    THEN [vault |-> after, ret |-> <<>>, raised |-> "OSError"]
                    ELSE [vault |-> after, ret |-> after.token_map[k],
                          raised |-> NoException]))

\* ----------------------------------------------------------- span resolver

\* A faulty sort key: the start alone, whatever the order asked for.
BeforeByStartOnly(order, a, b) ==
    IF order = "resolve" THEN a.start < b.start ELSE a.start > b.start

\* The sort keys: "resolve" is key=(start, -confidence); "reverse" is
\* key=start with reverse=True.  a goes strictly before b.
Before(order, a, b) ==
    IF order = "resolve"
    THEN a.start < b.start \/ (a.start = b.start /\ a.confidence > b.confidence)
    ELSE a.start > b.start

\* list.sort is stable: x goes after the elements it does not precede.
Insert(order, sorted, x) ==
    With(sorted, LAMBDA s :
        LET later == {i \in 1..Len(s) : Before(order, x, s[i])}
            pos == IF later = {} THEN Len(s) + 1 ELSE Min(later)
        IN  SubSeq(s, 1, pos - 1) \o <<x>> \o SubSeq(s, pos, Len(s)))

RECURSIVE SortFirst(_, _, _)
SortFirst(order, s, n) ==
    IF n = 0 THEN <<>> ELSE Insert(order, SortFirst(order, s, n - 1), s[n])

Sort(order, s) == With(s, LAMBDA l : SortFirst(order, l, Len(l)))

\* A faulty overlap test: the second comparison against added.end, which
\* misses an entity that lies inside an added one.
OverlapsPastEnd(entity, added) == entity.start < added.end /\ entity.end > added.end

\* The overlap test of the resolver's inner loop.
Overlaps(entity, added) == entity.start < added.end /\ entity.end > added.start

\* The resolver's outer loop over the first n sorted entities.
RECURSIVE Filtered(_, _)
Filtered(sorted, n) ==
    IF n = 0 THEN <<>>
    ELSE With(Filtered(sorted, n - 1), LAMBDA filtered :
             LET entity == sorted[n]
             IN  IF \E i \in 1..Len(filtered) : Overlaps(entity, filtered[i])
                 THEN filtered
                 ELSE Append(filtered, entity))

\* A faulty resolver: the entities are walked in the order given.
remove_overlapping_entities_unsorted(entities) ==
    With(entities, LAMBDA es : Filtered(es, Len(es)))

\* _remove_overlapping_entities: the entities sorted by (start, -confidence),
\* then walked, each kept unless it overlaps one kept before.
remove_overlapping_entities(entities) ==
    With(entities, LAMBDA es :
        IF es = <<>> THEN es
        ELSE With(Sort("resolve", es), LAMBDA sorted : Filtered(sorted, Len(sorted))))

\* ----------------------------------------------------------- model detector
\* The tagger is an external capability.  It is modelled as a fixed gazetteer:
\* it reports each occurrence of a listed word with the word's label; the
\* entities of one text do not overlap.

NerLexicon ==
    << [word |-> <<"J", "o", "h", "n">>, label |-> "PERSON"],
       [word |-> <<"$", "5">>, label |-> "MONEY"],
       [word |-> <<"x", "5">>, label |-> "ORG"],
       [word |-> <<"1", "5">>, label |-> "CARDINAL"] >>

StartsWith(t, p, w) == p + Len(w) <= Len(t) /\ Slice(t, p, p + Len(w)) = w

\* doc.ents of nlp(text), from offset pos on.
RECURSIVE DocEnts(_, _)
DocEnts(t, pos) ==
    With({p \in pos..(Len(t) - 1) :
             \E i \in 1..Len(NerLexicon) : StartsWith(t, p, NerLexicon[i].word)},
         LAMBDA hits :
        IF hits = {} THEN <<>>
        ELSE With(Min(hits), LAMBDA p :
                 With(Min({j \in 1..Len(NerLexicon) :
                              StartsWith(t, p, NerLexicon[j].word)}), LAMBDA i :
                     With(p + Len(NerLexicon[i].word), LAMBDA e :
                         <<[start_char |-> p, end_char |-> e,
                            label_ |-> NerLexicon[i].label]>> \o DocEnts(t, e)))))

\* nlp.max_length of the tagger "limited", scaled to the texts here: nlp(text)
\* raises ValueError on a longer text.  (The tagger "loaded" has a max_length
\* above every text here.)
NlpMaxLength == 8

\* Whether nlp(text) raises.
TaggerRaises(nlp, text) == nlp = "limited" /\ Len(text) > NlpMaxLength

\* ---------------------------------------------------------------- detection

RECURSIVE Flatten(_, _)
Flatten(ss, n) == IF n = 0 THEN <<>> ELSE Flatten(ss, n - 1) \o ss[n]

\* A faulty step 1: the tagger is called also when nlp is None.
ModelCandidatesUnguarded(nlp, text, config) ==
    LET ents == DocEnts(text, 0)
        keep(ent) == /\ ent.label_ \in Range(config.entities)
                     /\ ModelConfidence >= config.confidence_threshold
    IN  With(SelectSeq(ents, keep), LAMBDA kept :
            [i \in 1..Len(kept) |->
                [text |-> Slice(text, kept[i].start_char, kept[i].end_char),
                 start |-> kept[i].start_char, end |-> kept[i].end_char,
                 entity_type |-> kept[i].label_, confidence |-> ModelConfidence]])

\* Step 1 of detect_sensitive_entities, without the replacements: one
\* candidate per entity of the tagger whose label is an enabled entity type
\* and whose confidence reaches the threshold.
ModelCandidates(nlp, text, config) ==
    IF nlp = "none" THEN <<>>
    ELSE LET ents == DocEnts(text, 0)
             keep(ent) == /\ ent.label_ \in Range(config.entities)
                          /\ ModelConfidence >= config.confidence_threshold
         IN  With(SelectSeq(ents, keep), LAMBDA kept :
                 [i \in 1..Len(kept) |->
                     [text |-> Slice(text, kept[i].start_char, kept[i].end_char),
                      start |-> kept[i].start_char, end |-> kept[i].end_char,
                      entity_type |-> kept[i].label_, confidence |-> ModelConfidence]])

\* A faulty step 2: the matches of every pattern, enabled or not.
PatternCandidatesUnfiltered(text, config) ==
    LET of(ty) ==
            With(Finditer(ty, text, 0), LAMBDA ms :
                [i \in 1..Len(ms) |->
                    [text |-> Slice(text, ms[i].start, ms[i].end),
                     start |-> ms[i].start, end |-> ms[i].end,
                     entity_type |-> ty, confidence |-> PatternConfidence]])
    IN  With([i \in 1..Len(patterns) |-> of(patterns[i])], LAMBDA found :
            Flatten(found, Len(found)))

\* Step 2, without the replacements: the matches of each enabled pattern, in
\* the order of self.patterns.
PatternCandidates(text, config) ==
    LET of(ty) ==
            IF ty \in Range(config.entities)
            THEN With(Finditer(ty, text, 0), LAMBDA ms :
                     [i \in 1..Len(ms) |->
                         [text |-> Slice(text, ms[i].start, ms[i].end),
                          start |-> ms[i].start, end |-> ms[i].end,
                          entity_type |-> ty, confidence |-> PatternConfidence]])
            ELSE <<>>
    IN  With([i \in 1..Len(patterns) |-> of(patterns[i])], LAMBDA found :
            Flatten(found, Len(found)))

\* Each candidate gets its replacement from get_or_create_replacement, in the
\* order in which the candidates are found; the vault is threaded through.
RECURSIVE Attach(_, _, _, _)
Attach(vault, key, cands, n) ==
    IF n = 0 THEN [vault |-> vault, entities |-> <<>>, raised |-> NoException]
    ELSE With(Attach(vault, key, cands, n - 1), LAMBDA before :
             IF before.raised # NoException THEN before
             ELSE
             LET c == cands[n]
             IN  With(get_or_create_replacement(before.vault, key, c.text,
                                                c.entity_type), LAMBDA got :
                     IF got.raised # NoException
                     THEN [vault |-> got.vault, entities |-> before.entities,
                           raised |-> got.raised]
                     ELSE
                     [vault |-> got.vault,
                      entities |-> Append(before.entities,
                          [text |-> c.text, start |-> c.start, end |-> c.end,
                           entity_type |-> c.entity_type, confidence |-> c.confidence,
                           replacement |-> got.ret]),
                      raised |-> NoException]))

\* The candidates of one text, before overlap resolution.
Candidates(nlp, text, privacy_level) ==
    LET config == privacy_configs[privacy_level]
    IN  ModelCandidates(nlp, text, config) \o PatternCandidates(text, config)

\* detect_sensitive_entities: the vault after the call and the spans
\* returned.  nlp(text) is called first and outside any try; an exception of
\* get_or_create_replacement ends the call as well.
detect_sensitive_entities(vault, key, nlp, text, privacy_level) ==
    IF TaggerRaises(nlp, text)
    THEN [vault |-> vault, ret |-> <<>>, raised |-> "ValueError"]
    ELSE
    With(Candidates(nlp, text, privacy_level), LAMBDA cands :
        With(Attach(vault, key, cands, Len(cands)), LAMBDA found :
            IF found.raised # NoException
            THEN [vault |-> found.vault, ret |-> <<>>, raised |-> found.raised]
            ELSE [vault |-> found.vault,
                  ret |-> remove_overlapping_entities(found.entities),
                  raised |-> NoException]))

\* ------------------------------------------- format-preserving substitution

\* re.sub(r'\D', '', text)
DigitsOf(text) == SelectSeq(text, LAMBDA c : c \in Digits)

\* A faulty substitution: the shift reduced modulo 9.
ShiftedMod9(digits, k) ==
    [i \in 1..Len(digits) |-> DigitStr((DigitVal(digits[i]) + k) % 9)]

\* A faulty substitution: the digits are left as they are.
Unshifted(digits, k) == digits

\* ''.join([str((int(d) + k) % 10) for d in digits])
Shifted(digits, k) ==
    [i \in 1..Len(digits) |-> DigitStr((DigitVal(digits[i]) + k) % 10)]

\* '-'.join([encrypted[i:i+4] for i in range(0, len(encrypted), 4)])
RECURSIVE JoinGroupsOf4(_)
JoinGroupsOf4(encrypted) ==
    With(encrypted, LAMBDA e :
        IF Len(e) <= 4 THEN e
        ELSE SubSeq(e, 1, 4) \o <<"-">> \o JoinGroupsOf4(SubSeq(e, 5, Len(e))))

\* Whether the substitution is what apply_format_preserving_encryption
\* returns for this value (the inner conditions of its three branches).
CipherApplies(text, entity_type) ==
    \/ entity_type = "PHONE" /\ Len(DigitsOf(text)) = 10
    \/ entity_type = "CREDIT_CARD" /\ Len(DigitsOf(text)) >= 13
    \/ entity_type = "SSN" /\ Len(DigitsOf(text)) = 9

apply_format_preserving_encryption(key, text, entity_type) ==
    With(DigitsOf(text), LAMBDA digits :
        IF entity_type = "PHONE" /\ Len(digits) = 10
        THEN With(Shifted(digits, 3), LAMBDA encrypted :
                 <<"(">> \o SubSeq(encrypted, 1, 3) \o <<")", " ">>
                     \o SubSeq(encrypted, 4, 6) \o <<"-">> \o SubSeq(encrypted, 7, 10))
        ELSE IF entity_type = "CREDIT_CARD" /\ Len(digits) >= 13
        THEN JoinGroupsOf4(Shifted(digits, 2))
        ELSE IF entity_type = "SSN" /\ Len(digits) = 9
        THEN With(Shifted(digits, 1), LAMBDA encrypted :
                 SubSeq(encrypted, 1, 3) \o <<"-">> \o SubSeq(encrypted, 4, 5)
                     \o <<"-">> \o SubSeq(encrypted, 6, 9))
        ELSE generate_deterministic_token(key, text, entity_type))

\* ---------------------------------------------------------------- sanitizer

\* The replacement sanitize_text chooses for one entity.
ChooseReplacement(key, entity, preserve_format) ==
    IF preserve_format /\ entity.entity_type \in {"PHONE", "CREDIT_CARD", "SSN"}
    THEN apply_format_preserving_encryption(key, entity.text, entity.entity_type)
    ELSE entity.replacement

\* sanitized_text[:entity.start] + replacement + sanitized_text[entity.end:]
Splice(sanitized_text, entity, replacement) ==
    Slice(sanitized_text, 0, entity.start) \o replacement
        \o Slice(sanitized_text, entity.end, Len(sanitized_text))

\* A faulty loop: the audit entry records the vault's token also when the
\* substitution's output is spliced into the text.
RECURSIVE ReplacedRecordingToken(_, _, _, _, _)
ReplacedRecordingToken(key, text, entities, preserve_format, n) ==
    IF n = 0 THEN [sanitized_text |-> text, entities_found |-> <<>>]
    ELSE With(ReplacedRecordingToken(key, text, entities, preserve_format, n - 1),
              LAMBDA sofar :
             LET entity == entities[n]
             IN  With(ChooseReplacement(key, entity, preserve_format),
                      LAMBDA replacement :
                     [sanitized_text |->
                          Splice(sofar.sanitized_text, entity, replacement),
                      entities_found |-> Append(sofar.entities_found,
                          [original |-> entity.text,
                           replacement |-> entity.replacement,
                           entity_type |-> entity.entity_type,
                           confidence |-> entity.confidence,
                           position |-> [start |-> entity.start,
                                         end |-> entity.end]])]))

\* The loop of sanitize_text over the first n entities: the text so far and
\* the audit entries so far.
RECURSIVE Replaced(_, _, _, _, _)
Replaced(key, text, entities, preserve_format, n) ==
    IF n = 0 THEN [sanitized_text |-> text, entities_found |-> <<>>]
    ELSE With(Replaced(key, text, entities, preserve_format, n - 1), LAMBDA sofar :
             LET entity == entities[n]
             IN  With(ChooseReplacement(key, entity, preserve_format),
                      LAMBDA replacement :
                     [sanitized_text |->
                          Splice(sofar.sanitized_text, entity, replacement),
                      entities_found |-> Append(sofar.entities_found,
                          [original |-> entity.text, replacement |-> replacement,
                           entity_type |-> entity.entity_type,
                           confidence |-> entity.confidence,
                           position |-> [start |-> entity.start,
                                         end |-> entity.end]])]))

\* A faulty score: without the cap.
PrivacyScoreUncapped(n) == n * 10 + 50

\* min(1.0, len(entities) * 0.1 + 0.5), in hundredths.
PrivacyScore(n) == IF n * 10 + 50 > 100 THEN 100 ELSE n * 10 + 50

\* A faulty order: ascending start.
ReplacementOrderAscending(entities) == Sort("resolve", entities)

\* The order in which sanitize_text replaces the entities.
ReplacementOrder(entities) == Sort("reverse", entities)

\* sanitize_text: the vault after the call and the tuple returned (without
\* the processing time).
sanitize_text(vault, key, nlp, text, privacy_level, preserve_format) ==
    With(detect_sensitive_entities(vault, key, nlp, text, privacy_level),
         LAMBDA detected :
        IF detected.raised # NoException THEN detected
        ELSE
        With(ReplacementOrder(detected.ret), LAMBDA entities :
            With(Replaced(key, text, entities, preserve_format, Len(entities)),
                 LAMBDA done :
                [vault |-> detected.vault,
                 ret |-> [sanitized_text |-> done.sanitized_text,
                          privacy_score |-> PrivacyScore(Len(entities)),
                          entities_found |-> done.entities_found],
                 raised |-> NoException])))

\* ------------------------------------------------------------ the endpoints
\* An endpoint gives back the vault after the request and the response:
\* [status, body], or [status, detail] for an HTTPException.

\* The result of one text that was sanitized (without the processing time).
ItemResult(result, privacy_level) ==
    [sanitized_text |-> result.sanitized_text,
     privacy_score |-> result.privacy_score,
     entities_found |-> result.entities_found,
     privacy_level |-> privacy_level]

\* A faulty loop: the first text whose sanitize_text raises ends the batch.
RECURSIVE BatchLoopAborting(_, _, _, _, _)
BatchLoopAborting(vault, key, nlp, requests, n) ==
    IF n = 0 THEN [vault |-> vault, results |-> <<>>, aborted |-> FALSE]
    ELSE With(BatchLoopAborting(vault, key, nlp, requests, n - 1), LAMBDA sofar :
             IF sofar.aborted THEN sofar
             ELSE
             LET request == requests[n]
             IN  With(sanitize_text(sofar.vault, key, nlp, request.text,
                                    request.privacy_level, request.preserve_format),
                      LAMBDA r :
                     [vault |-> r.vault,
                      results |-> Append(sofar.results,
                          IF r.raised = NoException
                          THEN ItemResult(r.ret, request.privacy_level)
                          ELSE [error |-> <<"Failed to process: ", r.raised>>,
                                original_text |-> request.text]),
                      aborted |-> r.raised # NoException]))

\* The loop of batch_anonymize_text of privacy_service.py over the first n
\* requests: a text whose sanitize_text raises gives a dict with the error
\* and the original text.
RECURSIVE BatchLoop(_, _, _, _, _)
BatchLoop(vault, key, nlp, requests, n) ==
    IF n = 0 THEN [vault |-> vault, results |-> <<>>]
    ELSE With(BatchLoop(vault, key, nlp, requests, n - 1), LAMBDA sofar :
             LET request == requests[n]
             IN  With(sanitize_text(sofar.vault, key, nlp, request.text,
                                    request.privacy_level, request.preserve_format),
                      LAMBDA r :
                     [vault |-> r.vault,
                      results |-> Append(sofar.results,
                          IF r.raised = NoException
                          THEN ItemResult(r.ret, request.privacy_level)
                          ELSE [error |-> <<"Failed to process: ", r.raised>>,
                                original_text |-> request.text])]))

\* batch_anonymize_text of privacy_service.py
batch_anonymize_text(vault, key, nlp, requests) ==
    With(BatchLoop(vault, key, nlp, requests, Len(requests)), LAMBDA done :
        [vault |-> done.vault,
         response |-> [status |-> 200, body |-> [results |-> done.results]]])

\* str(e) of the HTTPException raised inside the try of an endpoint of
\* main.py: "<status>: <detail>" or the empty string, with the version of the
\* framework.
HTTPExceptionStr(status, detail) == {<<status, ": ", detail>>, <<>>}

\* The loop of batch_anonymize_text of main.py over the first n texts: a text
\* whose sanitize_text raises gives the text itself as sanitized_text, with
\* the error.
RECURSIVE MainBatchLoop(_, _, _, _, _, _)
MainBatchLoop(vault, key, nlp, texts, privacy_level, n) ==
    IF n = 0 THEN [vault |-> vault, results |-> <<>>]
    ELSE With(MainBatchLoop(vault, key, nlp, texts, privacy_level, n - 1),
              LAMBDA sofar :
             With(sanitize_text(sofar.vault, key, nlp, texts[n], privacy_level, TRUE),
                  LAMBDA r :
                 [vault |-> r.vault,
                  results |-> Append(sofar.results,
                      IF r.raised = NoException
                      THEN ItemResult(r.ret, privacy_level)
                      ELSE [sanitized_text |-> texts[n], privacy_score |-> 0,
                            entities_found |-> <<>>, privacy_level |-> privacy_level,
                            error |-> <<r.raised>>])]))

\* batch_anonymize_text of main.py: the responses it can give.  The
\* HTTPException for an empty texts array is raised inside the try and is
\* caught by its except Exception.
main_batch_anonymize_text(vault, key, nlp, request) ==
    IF request.texts = <<>>
    THEN {[vault |-> vault, response |-> [status |-> 500, detail |-> d]] :
             d \in HTTPExceptionStr(400, "Texts array is required")}
    ELSE {With(MainBatchLoop(vault, key, nlp, request.texts, request.privacy_level,
                             Len(request.texts)), LAMBDA done :
              [vault |-> done.vault,
               response |-> [status |-> 200, body |-> [results |-> done.results]]])}

\* anonymize_text of main.py: the responses it can give.  request.text is
\* request.get("text", ""); the HTTPException for an empty text is raised
\* inside the try and is caught by its except Exception, as is an exception
\* of sanitize_text.
main_anonymize_text(vault, key, nlp, request) ==
    IF request.text = <<>>
    THEN {[vault |-> vault, response |-> [status |-> 500, detail |-> d],
           sanitized |-> FALSE] :
             d \in HTTPExceptionStr(400, "Text is required")}
    ELSE {With(sanitize_text(vault, key, nlp, request.text, request.privacy_level,
                             TRUE), LAMBDA r :
              [vault |-> r.vault,
               response |-> IF r.raised = NoException
                            THEN [status |-> 200,
                                  body |-> ItemResult(r.ret, request.privacy_level)]
                            ELSE [status |-> 500, detail |-> <<r.raised>>],
               sanitized |-> TRUE])}

\* ============================================================ state machines

VARIABLES
    secret_key,  \* self.secret_key of the running service
    env_key,     \* PRIVACY_SECRET_KEY in the environment, or Unset
    nlp,         \* the module's tagger: "loaded", "limited" (loaded, with a small
                 \* max_length), or "none" (nlp is None)
    token_map,   \* self.token_map
    store,       \* the mapping in token_map.json (no file: the empty mapping)
    call,        \* the request at hand: the operation and its arguments
    ret,         \* what the last completed call returned
    prev,        \* the vault as it was when the last call began
    calls,       \* the number of calls completed
    first,       \* the first result of the repeated request (SpecRepeat), the
                 \* results of the earlier calls (SpecLevels)
    threads,     \* the get_or_create_replacement calls that run concurrently
                 \* (SpecRace): each thread's position and local values
    inserted,    \* the keys of self.token_map in insertion order, the order
                 \* in which json.dump writes them (SpecRace)
    file,        \* token_map.json as the chunks written to it (SpecRace); the
                 \* specifications whose calls run one at a time keep the
                 \* file's mapping in store
    disk         \* whether token_map.json can be opened for writing: "ok", or
                 \* "readonly"

vars == <<secret_key, env_key, nlp, token_map, store, call, ret, prev, calls, first,
         threads, inserted, file, disk>>

\* The variables of the concurrent calls.
racing == <<threads, inserted, file>>

\* No call runs concurrently, token_map.json is not looked at chunk by chunk,
\* and it can be written.
NoRace ==
    /\ threads = <<>>
    /\ inserted = <<>>
    /\ file = [exists |-> FALSE, chunks |-> <<>>]
    /\ disk = "ok"

Vault == [token_map |-> token_map, store |-> store, disk |-> disk]
EmptyVault == [token_map |-> NoMap, store |-> NoMap, disk |-> "ok"]

\* Two secret keys.
K1 == <<"k", "1">>
K2 == <<"k", "2">>
Keys == {K1, K2}

\* PRIVACY_SECRET_KEY is not in the environment.
Unset == <<>>

\* __init__: the key is the environment's, or secrets.token_hex(32): any key.
KeysAtStart(env) == IF env = Unset THEN Keys ELSE {env}

\* A service that has just been constructed with key k over an absent
\* token_map.json, and has not been called.
Fresh(k, env, tagger) ==
    /\ secret_key = k
    /\ env_key = env
    /\ nlp = tagger
    /\ token_map = NoMap
    /\ store = NoMap
    /\ ret = <<>>
    /\ prev = EmptyVault
    /\ calls = 0
    /\ first = <<>>
    /\ NoRace

\* ------------------------------------------------ the resolver on its own

\* The largest offset of a candidate span, and the longest candidate list.
MaxOffset == 3
MaxSpans == 3

\* Candidate spans as the two detectors make them: a model span has
\* confidence 0.9, a pattern span 0.95.
CandidateSpans ==
    {[start |-> a, end |-> b, entity_type |-> k[1], confidence |-> k[2]] :
        a \in 0..MaxOffset, b \in 0..MaxOffset,
        k \in {<<"PERSON", ModelConfidence>>, <<"EMAIL", PatternConfidence>>}}

SpanLists ==
    UNION {[1..n -> {c \in CandidateSpans : c.start < c.end}] : n \in 0..MaxSpans}

InitResolver ==
    /\ Fresh(K1, K1, "none")
    /\ call \in {[op |-> "request", entities |-> es] : es \in SpanLists}

Resolve ==
    /\ call.op = "request"
    /\ call' = [call EXCEPT !.op = "_remove_overlapping_entities"]
    /\ ret' = remove_overlapping_entities(call.entities)
    /\ calls' = calls + 1
    /\ UNCHANGED <<secret_key, env_key, nlp, token_map, store, prev, first, racing, disk>>

NextResolver == Resolve

SpecResolver == InitResolver /\ [][NextResolver]_vars

\* --------------------------------------------- the substitution on its own

\* The shapes of the values: "d" stands for a digit.
ValueShapes ==
    { <<"d", "d", "d", "-", "d", "d", "d", "-", "d", "d", "d", "d">>,
      <<"(", "d", "d", "d", ")", " ", "d", "d", "d", "-", "d", "d", "d", "d">>,
      <<"d", "d", "d", "d", "d", "d", "d", "d", "d", "d">>,
      <<"d", "-", "d", "d", "d", "-", "d", "d", "d", "-", "d", "d", "d", "d">>,
      <<"d", "d", "d", "-", "d", "d", "-", "d", "d", "d", "d">>,
      <<"d", "d", "d", "d", "d", "d", "d", "d", "d">>,
      <<"d", "d", "d", "d", "d", "d", "d", "d", "d", "d", "d", "d", "d", "d", "d", "d">>,
      <<"d", "d", "d", "d", " ", "d", "d", "d", "d", " ", "d", "d", "d", "d", " ", "d">>,
      <<"d", "d", "d", "d">> }

\* The digits of a value are base, base + step, base + 2 step, ... (mod 10).
MaxStep == 2

\* The shape with its digits filled in.
RECURSIVE Fill(_, _, _, _, _)
Fill(shape, base, step, i, nth) ==
    IF i > Len(shape) THEN <<>>
    ELSE IF shape[i] = "d"
    THEN <<DigitStr((base + nth * step) % 10)>> \o Fill(shape, base, step, i + 1, nth + 1)
    ELSE <<shape[i]>> \o Fill(shape, base, step, i + 1, nth)

CipherValues ==
    {Fill(sh, base, step, 1, 0) : sh \in ValueShapes, base \in 0..9, step \in 0..MaxStep}

InitCipher ==
    /\ Fresh(K1, K1, "none")
    /\ call \in {[op |-> "request", text |-> v, entity_type |-> ty] :
                    v \in CipherValues, ty \in {"PHONE", "CREDIT_CARD", "SSN", "EMAIL"}}

Encrypt ==
    /\ call.op = "request"
    /\ call' = [call EXCEPT !.op = "apply_format_preserving_encryption"]
    /\ ret' = apply_format_preserving_encryption(secret_key, call.text, call.entity_type)
    /\ calls' = calls + 1
    /\ UNCHANGED <<secret_key, env_key, nlp, token_map, store, prev, first, racing, disk>>

NextCipher == Encrypt

SpecCipher == InitCipher /\ [][NextCipher]_vars


\* ------------------------------------------------- one call on a new service

\* The pieces the texts are made of: a name the tagger knows, a space, an
\* e-mail address, a 10-digit and an 11-digit phone number, a social security
\* number, a 13-digit card number, an amount and a percentage followed by a
\* letter.
Words ==
    { <<"J", "o", "h", "n">>,
      <<" ">>,
      <<"a", "@", "b", ".", "c", "o">>,
      <<"5", "5", "5", "-", "1", "2", "3", "-", "4", "5", "6", "7">>,
      <<"1", "-", "5", "5", "5", "-", "1", "2", "3", "-", "4", "5", "6", "7">>,
      <<"1", "2", "3", "-", "4", "5", "-", "6", "7", "8", "9">>,
      <<"4", "1", "1", "1", "1", "1", "1", "1", "1", "1", "1", "1", "1">>,
      <<"$", "5">>,
      <<"1", "5", "%", "x">> }

\* A text is up to MaxWords pieces, one after the other.
MaxWords == 2

Texts ==
    {Flatten(ws, Len(ws)) : ws \in UNION {[1..n -> Words] : n \in 0..MaxWords}}

InitSanitize ==
    /\ \E tagger \in {"loaded", "none"} : Fresh(K1, K1, tagger)
    /\ call \in {[op |-> "request", text |-> t, privacy_level |-> l,
                  preserve_format |-> pf] :
                    t \in Texts, l \in PrivacyLevel, pf \in BOOLEAN}

\* One sanitize_text call.
SanitizeOnce ==
    /\ call.op = "request"
    /\ \E r \in {sanitize_text(Vault, secret_key, nlp, call.text, call.privacy_level,
                               call.preserve_format)} :
           /\ token_map' = r.vault.token_map
           /\ store' = r.vault.store
           /\ ret' = r.ret
    /\ call' = [call EXCEPT !.op = "sanitize_text"]
    /\ prev' = Vault
    /\ calls' = calls + 1
    /\ UNCHANGED <<secret_key, env_key, nlp, first, racing, disk>>

\* One detect_sensitive_entities call.
DetectOnce ==
    /\ call.op = "request"
    /\ \E r \in {detect_sensitive_entities(Vault, secret_key, nlp, call.text,
                                           call.privacy_level)} :
           /\ token_map' = r.vault.token_map
           /\ store' = r.vault.store
           /\ ret' = r.ret
    /\ call' = [call EXCEPT !.op = "detect_sensitive_entities"]
    /\ prev' = Vault
    /\ calls' = calls + 1
    /\ UNCHANGED <<secret_key, env_key, nlp, first, racing, disk>>

NextSanitize == SanitizeOnce \/ DetectOnce

SpecSanitize == InitSanitize /\ [][NextSanitize]_vars

\* ------------------------------------------------------ the running service

\* The texts, privacy levels and (value, entity type) pairs of the requests.
SessionTexts ==
    { <<"1", "-", "5", "5", "5", "-", "1", "2", "3", "-", "4", "5", "6", "7">>,
      <<"J", "o", "h", "n", " ", "a", "@", "b", ".", "c", "o">>,
      <<"A", "@", "B", ".", "c", "o">> }
SessionLevels == {"minimal", "strict"}
SessionValues ==
    { [original_text |-> <<"A", "@", "B", ".", "c", "o">>, entity_type |-> "EMAIL"],
      [original_text |-> <<"J", "o", "h", "n">>, entity_type |-> "PERSON"],
      [original_text |-> <<"J", "o", "h", "n">>, entity_type |-> "ORG"] }

\* The number of calls one run makes.
MaxCalls == 2

\* privacy_service = PrivacyService() at import, over an absent token_map.json.
Init ==
    \E env \in {K1, Unset} : \E k \in KeysAtStart(env) : \E tagger \in {"loaded", "none"} :
        /\ Fresh(k, env, tagger)
        /\ call = [op |-> "start"]

SanitizeCall ==
    /\ calls < MaxCalls
    /\ \E t \in SessionTexts, l \in SessionLevels, pf \in BOOLEAN :
          /\ call' = [op |-> "sanitize_text", text |-> t, privacy_level |-> l,
                      preserve_format |-> pf]
          /\ \E r \in {sanitize_text(Vault, secret_key, nlp, t, l, pf)} :
                /\ token_map' = r.vault.token_map
                /\ store' = r.vault.store
                /\ ret' = r.ret
    /\ prev' = Vault
    /\ calls' = calls + 1
    /\ UNCHANGED <<secret_key, env_key, nlp, first, racing, disk>>

DetectCall ==
    /\ calls < MaxCalls
    /\ \E t \in SessionTexts, l \in SessionLevels :
          /\ call' = [op |-> "detect_sensitive_entities", text |-> t,
                      privacy_level |-> l]
          /\ \E r \in {detect_sensitive_entities(Vault, secret_key, nlp, t, l)} :
                /\ token_map' = r.vault.token_map
                /\ store' = r.vault.store
                /\ ret' = r.ret
    /\ prev' = Vault
    /\ calls' = calls + 1
    /\ UNCHANGED <<secret_key, env_key, nlp, first, racing, disk>>

GetOrCreateCall ==
    /\ calls < MaxCalls
    /\ \E v \in SessionValues :
          /\ call' = [op |-> "get_or_create_replacement",
                      original_text |-> v.original_text, entity_type |-> v.entity_type]
          /\ \E r \in {get_or_create_replacement(Vault, secret_key, v.original_text,
                                                  v.entity_type)} :
                /\ token_map' = r.vault.token_map
                /\ store' = r.vault.store
                /\ ret' = r.ret
    /\ prev' = Vault
    /\ calls' = calls + 1
    /\ UNCHANGED <<secret_key, env_key, nlp, first, racing, disk>>

\* The process ends and a new one starts: __init__ again, over the
\* token_map.json the old process left.
Restart ==
    /\ call.op # "restart"
    /\ secret_key' \in KeysAtStart(env_key)
    /\ token_map' = load_token_map(Vault).token_map
    /\ call' = [op |-> "restart"]
    /\ ret' = <<>>
    /\ prev' = Vault
    /\ UNCHANGED <<env_key, nlp, store, calls, first, racing, disk>>

Next == SanitizeCall \/ DetectCall \/ GetOrCreateCall \/ Restart

Spec == Init /\ [][Next]_vars

\* ------------------------------------------- one request made twice

\* The texts of the requests: an 11-digit and a 10-digit phone number, a name
\* with an e-mail address, and one address written twice.
RepeatTexts ==
    { <<"1", "-", "5", "5", "5", "-", "1", "2", "3", "-", "4", "5", "6", "7">>,
      <<"5", "5", "5", "-", "1", "2", "3", "-", "4", "5", "6", "7">>,
      <<"J", "o", "h", "n", " ", "a", "@", "b", ".", "c", "o">>,
      <<"a", "@", "b", ".", "c", "o", " ", "a", "@", "b", ".", "c", "o">> }

\* The vault an earlier process with key k left after sanitizing text t.
LeftBy(k, t) == sanitize_text(EmptyVault, k, "loaded", t, "strict", FALSE).vault

\* The vaults the service starts with: none, or one left by a process that
\* had another key.
StartVaults == {EmptyVault} \cup {LeftBy(K2, t) : t \in RepeatTexts}

\* The number of other calls between the two.
MaxBetween == 1

InitRepeat ==
    /\ secret_key = K1
    /\ env_key = K1
    /\ nlp \in {"loaded", "none"}
    /\ \E v \in StartVaults : token_map = v.token_map /\ store = v.store
    /\ call \in {[op |-> "request", text |-> t, privacy_level |-> l,
                  preserve_format |-> pf] :
                    t \in RepeatTexts, l \in PrivacyLevel, pf \in BOOLEAN}
    /\ ret = <<>>
    /\ prev = EmptyVault
    /\ calls = 0
    /\ first = <<>>
    /\ NoRace

\* The request is made.
First ==
    /\ call.op = "request"
    /\ \E r \in {sanitize_text(Vault, secret_key, nlp, call.text, call.privacy_level,
                               call.preserve_format)} :
           /\ token_map' = r.vault.token_map
           /\ store' = r.vault.store
           /\ ret' = r.ret
           /\ first' = r.ret
    /\ call' = [call EXCEPT !.op = "first"]
    /\ prev' = Vault
    /\ calls' = calls + 1
    /\ UNCHANGED <<secret_key, env_key, nlp, racing, disk>>

\* Another sanitize_text or detect_sensitive_entities call is made.
Between ==
    /\ call.op \in {"first", "between"}
    /\ calls <= MaxBetween
    /\ \E t \in RepeatTexts :
          \/ \E r \in {sanitize_text(Vault, secret_key, nlp, t, "strict", FALSE)} :
                /\ token_map' = r.vault.token_map
                /\ store' = r.vault.store
                /\ ret' = r.ret
          \/ \E r \in {detect_sensitive_entities(Vault, secret_key, nlp, t, "strict")} :
                /\ token_map' = r.vault.token_map
                /\ store' = r.vault.store
                /\ ret' = r.ret
    /\ call' = [call EXCEPT !.op = "between"]
    /\ prev' = Vault
    /\ calls' = calls + 1
    /\ UNCHANGED <<secret_key, env_key, nlp, first, racing, disk>>

\* The request is made again.
Second ==
    /\ call.op \in {"first", "between"}
    /\ \E r \in {sanitize_text(Vault, secret_key, nlp, call.text, call.privacy_level,
                               call.preserve_format)} :
           /\ token_map' = r.vault.token_map
           /\ store' = r.vault.store
           /\ ret' = r.ret
    /\ call' = [call EXCEPT !.op = "second"]
    /\ prev' = Vault
    /\ calls' = calls + 1
    /\ UNCHANGED <<secret_key, env_key, nlp, first, racing, disk>>

NextRepeat == First \/ Between \/ Second

SpecRepeat == InitRepeat /\ [][NextRepeat]_vars


\* ------------------------------------- one text at the three privacy levels

\* The pieces the texts are made of: a name the tagger knows, a space, an
\* e-mail address, an amount and a 10-digit phone number without separators.
LevelPieces ==
    { <<"J", "o", "h", "n">>,
      <<" ">>,
      <<"a", "@", "b", ".", "c", "o">>,
      <<"$", "5">>,
      <<"5", "5", "5", "1", "2", "3", "4", "5", "6", "7">> }

\* A text is up to MaxPieces pieces, one after the other.
MaxPieces == 3

LevelTexts ==
    {Flatten(ws, Len(ws)) : ws \in UNION {[1..n -> LevelPieces] : n \in 0..MaxPieces}}

\* The levels in the order in which the text is submitted.
LevelOrder == <<"minimal", "standard", "strict">>

InitLevels ==
    /\ \E tagger \in {"loaded", "none"} : Fresh(K1, K1, tagger)
    /\ call \in {[op |-> "request", text |-> t] : t \in LevelTexts}

\* detect_sensitive_entities is called on the text at the next level; first
\* collects what the calls returned, in the order of LevelOrder.
DetectAtLevel ==
    /\ Len(first) < Len(LevelOrder)
    /\ \E level \in {LevelOrder[Len(first) + 1]} :
          /\ \E r \in {detect_sensitive_entities(Vault, secret_key, nlp, call.text,
                                                 level)} :
                /\ token_map' = r.vault.token_map
                /\ store' = r.vault.store
                /\ ret' = r.ret
                /\ first' = Append(first, r.ret)
          /\ call' = [op |-> "detect_sensitive_entities", text |-> call.text,
                      privacy_level |-> level]
    /\ prev' = Vault
    /\ calls' = calls + 1
    /\ UNCHANGED <<secret_key, env_key, nlp, racing, disk>>

NextLevels == DetectAtLevel

SpecLevels == InitLevels /\ [][NextLevels]_vars

\* --------------------------------------- texts with many sensitive values

\* The pieces the texts repeat: an e-mail address and a space, an amount, and
\* a name the tagger knows and a space.
ScorePieces ==
    { <<"a", "@", "b", ".", "c", "o", " ">>,
      <<"$", "5">>,
      <<"J", "o", "h", "n", " ">> }

\* A text is one piece repeated up to MaxRepeats times.
MaxRepeats == 6

RECURSIVE Repeat(_, _)
Repeat(piece, k) == IF k = 0 THEN <<>> ELSE Repeat(piece, k - 1) \o piece

ScoreTexts == {Repeat(piece, k) : piece \in ScorePieces, k \in 0..MaxRepeats}

InitScore ==
    /\ \E tagger \in {"loaded", "none"} : Fresh(K1, K1, tagger)
    /\ call = [op |-> "start"]

\* A first sanitize_text call; first keeps what it returned.
ScoreFirst ==
    /\ call.op = "start"
    /\ \E t \in ScoreTexts, l \in PrivacyLevel :
          /\ \E r \in {sanitize_text(Vault, secret_key, nlp, t, l, FALSE)} :
                /\ token_map' = r.vault.token_map
                /\ store' = r.vault.store
                /\ ret' = r.ret
                /\ first' = r.ret
          /\ call' = [op |-> "first", text |-> t, privacy_level |-> l,
                      preserve_format |-> FALSE]
    /\ prev' = Vault
    /\ calls' = calls + 1
    /\ UNCHANGED <<secret_key, env_key, nlp, racing, disk>>

\* A second sanitize_text call, on any text.
ScoreSecond ==
    /\ call.op = "first"
    /\ \E t \in ScoreTexts, l \in PrivacyLevel :
          /\ \E r \in {sanitize_text(Vault, secret_key, nlp, t, l, FALSE)} :
                /\ token_map' = r.vault.token_map
                /\ store' = r.vault.store
                /\ ret' = r.ret
          /\ call' = [op |-> "second", text |-> t, privacy_level |-> l,
                      preserve_format |-> FALSE]
    /\ prev' = Vault
    /\ calls' = calls + 1
    /\ UNCHANGED <<secret_key, env_key, nlp, first, racing, disk>>

NextScore == ScoreFirst \/ ScoreSecond

SpecScore == InitScore /\ [][NextScore]_vars

\* ------------------------------- get_or_create_replacement calls in threads

\* The threads that call get_or_create_replacement on the one service.
Threads == {1, 2}

\* The values the threads ask for: two spellings of one PERSON value, the
\* same value as an ORG, and an e-mail address.
RaceValues ==
    { [original_text |-> <<"J", "o", "h", "n">>, entity_type |-> "PERSON"],
      [original_text |-> <<"j", "o", "h", "n">>, entity_type |-> "PERSON"],
      [original_text |-> <<"J", "o", "h", "n">>, entity_type |-> "ORG"],
      [original_text |-> <<"a", "@", "b", ".", "c", "o">>, entity_type |-> "EMAIL"] }

\* The values asked for before the threads start, and how many of them at most.
OldValues ==
    << [original_text |-> <<"$", "5">>, entity_type |-> "MONEY"],
       [original_text |-> <<"1", "5", "%">>, entity_type |-> "PERCENT"] >>

MaxOld == 1

\* The vault after get_or_create_replacement on the first n old values.
RECURSIVE OldVault(_)
OldVault(n) ==
    IF n = 0 THEN EmptyVault
    ELSE get_or_create_replacement(OldVault(n - 1), K1, OldValues[n].original_text,
                                   OldValues[n].entity_type).vault

\* The chunks json.dump writes for the mapping m whose keys are, in insertion
\* order, keys: the opening brace, one chunk per item, the closing brace.
Brace(b) == [key |-> <<b>>, token |-> <<>>]
Item(m, k) == [key |-> k, token |-> m[k]]
Dumped(keys, m) ==
    <<Brace("{")>> \o [i \in 1..Len(keys) |-> Item(m, keys[i])] \o <<Brace("}")>>

\* A file object opened with "w" writes from offset 0: its buffer goes over
\* the beginning of what the file holds and the rest stays.
Written(buffer, chunks) == buffer \o SubSeq(chunks, Len(buffer) + 1, Len(chunks))

InitRace ==
    /\ secret_key = K1
    /\ env_key = K1
    /\ nlp = "none"
    /\ \E n \in 0..MaxOld :
          /\ token_map = OldVault(n).token_map
          /\ store = OldVault(n).store
          /\ inserted = [i \in 1..n |-> VaultKey(OldValues[i].original_text,
                                                 OldValues[i].entity_type)]
          /\ file = [exists |-> n > 0,
                     chunks |-> IF n > 0 THEN Dumped(inserted, token_map) ELSE <<>>]
    /\ threads \in [Threads ->
          {[pc |-> "call", original_text |-> v.original_text,
            entity_type |-> v.entity_type, key |-> <<>>, used |-> 0,
            buffer |-> <<>>, error |-> FALSE, ret |-> <<>>] : v \in RaceValues}]
    /\ call = [op |-> "threads"]
    /\ disk = "ok"
    /\ ret = <<>>
    /\ prev = EmptyVault
    /\ calls = 0
    /\ first = <<>>

\* What a step of one thread leaves alone.
RaceUnchanged ==
    UNCHANGED <<secret_key, env_key, nlp, store, call, ret, prev, calls, first, disk>>

\* key = ...; if key not in self.token_map
Check(t) ==
    /\ threads[t].pc = "call"
    /\ \E k \in {VaultKey(threads[t].original_text, threads[t].entity_type)} :
          threads' = [threads EXCEPT ![t].key = k,
                         ![t].pc = IF k \notin DOMAIN token_map THEN "store"
                                   ELSE "return"]
    /\ UNCHANGED <<token_map, inserted, file>>
    /\ RaceUnchanged

\* self.token_map[key] = self.generate_deterministic_token(...): a key that
\* another thread has stored meanwhile keeps its place in the mapping.
Store(t) ==
    /\ threads[t].pc = "store"
    /\ token_map' = Put(token_map, threads[t].key,
                        generate_deterministic_token(secret_key,
                            threads[t].original_text, threads[t].entity_type))
    /\ inserted' = IF threads[t].key \in DOMAIN token_map THEN inserted
                   ELSE Append(inserted, threads[t].key)
    /\ threads' = [threads EXCEPT ![t].pc = "open"]
    /\ UNCHANGED file
    /\ RaceUnchanged

\* open("token_map.json", "w"): the file is created or truncated.
OpenFile(t) ==
    /\ threads[t].pc = "open"
    /\ file' = [exists |-> TRUE, chunks |-> <<>>]
    /\ threads' = [threads EXCEPT ![t].pc = "dump", ![t].buffer = <<>>]
    /\ UNCHANGED <<token_map, inserted>>
    /\ RaceUnchanged

\* json.dump begins: the opening brace goes to the buffer and the iteration
\* over self.token_map starts, at the size the mapping has now.
BeginDump(t) ==
    /\ threads[t].pc = "dump"
    /\ threads' = [threads EXCEPT ![t].pc = "item",
                      ![t].buffer = <<Brace("{")>>,
                      ![t].used = Len(inserted)]
    /\ UNCHANGED <<token_map, inserted, file>>
    /\ RaceUnchanged

\* One step of the iteration: RuntimeError if the mapping has changed its
\* size since the iteration began; otherwise the next item goes to the
\* buffer, or after the last one the closing brace.
DumpItem(t) ==
    /\ threads[t].pc = "item"
    /\ LET written == Len(threads[t].buffer) - 1
       IN  \/ /\ Len(inserted) # threads[t].used
              /\ threads' = [threads EXCEPT ![t].pc = "close", ![t].error = TRUE]
           \/ /\ Len(inserted) = threads[t].used
              /\ written < threads[t].used
              /\ threads' = [threads EXCEPT ![t].buffer =
                                Append(@, Item(token_map, inserted[written + 1]))]
           \/ /\ Len(inserted) = threads[t].used
              /\ written = threads[t].used
              /\ threads' = [threads EXCEPT ![t].pc = "close",
                                ![t].buffer = Append(@, Brace("}"))]
    /\ UNCHANGED <<token_map, inserted, file>>
    /\ RaceUnchanged

\* The with statement closes the file, also when json.dump has raised: the
\* buffer is written to the file.
CloseFile(t) ==
    /\ threads[t].pc = "close"
    /\ file' = [exists |-> TRUE, chunks |-> Written(threads[t].buffer, file.chunks)]
    /\ threads' = [threads EXCEPT ![t].pc = IF threads[t].error THEN "raised"
                                            ELSE "return"]
    /\ UNCHANGED <<token_map, inserted>>
    /\ RaceUnchanged

\* return self.token_map[key]
Return(t) ==
    /\ threads[t].pc = "return"
    /\ threads' = [threads EXCEPT ![t].pc = "done",
                      ![t].ret = token_map[threads[t].key]]
    /\ UNCHANGED <<token_map, inserted, file>>
    /\ RaceUnchanged

NextRace ==
    \E t \in Threads :
        \/ Check(t)
        \/ Store(t)
        \/ OpenFile(t)
        \/ BeginDump(t)
        \/ DumpItem(t)
        \/ CloseFile(t)
        \/ Return(t)

SpecRace == InitRace /\ [][NextRace]_vars

\* ------------------- a tagger that can raise and a file that can be read-only

\* The texts submitted: the empty one, a name the tagger knows, an e-mail
\* address, and both in a text longer than NlpMaxLength.
FaultTexts ==
    { <<>>,
      <<"J", "o", "h", "n">>,
      <<"a", "@", "b", ".", "c", "o">>,
      <<"J", "o", "h", "n", " ", "a", "@", "b", ".", "c", "o">> }

\* The values get_or_create_replacement is called with.
FaultValues ==
    { [original_text |-> <<"a", "@", "b", ".", "c", "o">>, entity_type |-> "EMAIL"],
      [original_text |-> <<"J", "o", "h", "n">>, entity_type |-> "PERSON"] }

\* The number of calls.
MaxFaultCalls == 2

InitFaults ==
    /\ \E tagger \in {"loaded", "limited", "none"} : Fresh(K1, K1, tagger)
    /\ call = [op |-> "start"]

\* The file system turns read-only, or writable again.
SetDisk ==
    /\ disk' = IF disk = "ok" THEN "readonly" ELSE "ok"
    /\ UNCHANGED <<secret_key, env_key, nlp, token_map, store, call, ret, prev, calls,
                   first, racing>>

\* One sanitize_text call; call.raised is the exception it ended with.
FaultySanitizeCall ==
    /\ calls < MaxFaultCalls
    /\ \E t \in FaultTexts, l \in PrivacyLevel, pf \in BOOLEAN :
          \E r \in {sanitize_text(Vault, secret_key, nlp, t, l, pf)} :
             /\ token_map' = r.vault.token_map
             /\ store' = r.vault.store
             /\ ret' = r.ret
             /\ call' = [op |-> "sanitize_text", text |-> t, privacy_level |-> l,
                         preserve_format |-> pf, raised |-> r.raised]
    /\ prev' = Vault
    /\ calls' = calls + 1
    /\ UNCHANGED <<secret_key, env_key, nlp, first, racing, disk>>

\* One get_or_create_replacement call.
FaultyGetOrCreateCall ==
    /\ calls < MaxFaultCalls
    /\ \E v \in FaultValues :
          \E r \in {get_or_create_replacement(Vault, secret_key, v.original_text,
                                              v.entity_type)} :
             /\ token_map' = r.vault.token_map
             /\ store' = r.vault.store
             /\ ret' = r.ret
             /\ call' = [op |-> "get_or_create_replacement",
                         original_text |-> v.original_text,
                         entity_type |-> v.entity_type, raised |-> r.raised]
    /\ prev' = Vault
    /\ calls' = calls + 1
    /\ UNCHANGED <<secret_key, env_key, nlp, first, racing, disk>>

NextFaults == SetDisk \/ FaultySanitizeCall \/ FaultyGetOrCreateCall

SpecFaults == InitFaults /\ [][NextFaults]_vars

\* ----------------------------------------------- one request to an endpoint

\* The texts of the requests: an e-mail address, a phone number, and a name
\* and an e-mail address in a text longer than NlpMaxLength.
ApiTexts ==
    { <<"a", "@", "b", ".", "c", "o">>,
      <<"5", "5", "5", "-", "1", "2", "3", "-", "4", "5", "6", "7">>,
      <<"J", "o", "h", "n", " ", "a", "@", "b", ".", "c", "o">> }

\* The longest batch.
MaxBatch == 2

Batches == UNION {[1..n -> ApiTexts] : n \in 0..MaxBatch}

InitApi ==
    /\ \E tagger \in {"loaded", "limited", "none"} : Fresh(K1, K1, tagger)
    /\ call = [op |-> "start"]

\* POST /batch-anonymize of privacy_service.py
BatchAnonymize ==
    /\ calls = 0
    /\ \E texts \in Batches, l \in {"minimal", "strict"}, pf \in BOOLEAN :
          LET requests == [i \in 1..Len(texts) |->
                              [text |-> texts[i], privacy_level |-> l,
                               preserve_format |-> pf]]
          IN  \E r \in {batch_anonymize_text(Vault, secret_key, nlp, requests)} :
                 /\ token_map' = r.vault.token_map
                 /\ store' = r.vault.store
                 /\ ret' = r.response
                 /\ call' = [op |-> "batch_anonymize_text", requests |-> requests]
    /\ prev' = Vault
    /\ calls' = calls + 1
    /\ UNCHANGED <<secret_key, env_key, nlp, first, racing, disk>>

\* POST /batch-anonymize of main.py
MainBatchAnonymize ==
    /\ calls = 0
    /\ \E texts \in Batches, l \in {"minimal", "strict"} :
          LET request == [texts |-> texts, privacy_level |-> l]
          IN  \E r \in main_batch_anonymize_text(Vault, secret_key, nlp, request) :
                 /\ token_map' = r.vault.token_map
                 /\ store' = r.vault.store
                 /\ ret' = r.response
                 /\ call' = [op |-> "main_batch_anonymize_text", request |-> request]
    /\ prev' = Vault
    /\ calls' = calls + 1
    /\ UNCHANGED <<secret_key, env_key, nlp, first, racing, disk>>

\* POST /anonymize of main.py; a request without "text" is one with the
\* empty text.
MainAnonymize ==
    /\ calls = 0
    /\ \E t \in ApiTexts \cup {<<>>}, l \in {"minimal", "strict"} :
          LET request == [text |-> t, privacy_level |-> l]
          IN  \E r \in main_anonymize_text(Vault, secret_key, nlp, request) :
                 /\ token_map' = r.vault.token_map
                 /\ store' = r.vault.store
                 /\ ret' = r.response
                 /\ call' = [op |-> "main_anonymize_text", request |-> request,
                             sanitized |-> r.sanitized]
    /\ prev' = Vault
    /\ calls' = calls + 1
    /\ UNCHANGED <<secret_key, env_key, nlp, first, racing, disk>>

NextApi == SetDisk \/ BatchAnonymize \/ MainBatchAnonymize \/ MainAnonymize

SpecApi == InitApi /\ [][NextApi]_vars

\* ================================================================== claims

\* ---- C1: for every list of candidate spans, no two distinct spans a, b of
\* the resolver's output satisfy a.start < b.end and b.start < a.end.
C1_NoRetainedOverlap ==
    call.op = "_remove_overlapping_entities" =>
        \A i, j \in 1..Len(ret) :
            i # j => ~(ret[i].start < ret[j].end /\ ret[j].start < ret[i].end)

\* C1's case: a list of three candidates, two of which overlap, from which
\* the resolver discards one and keeps two.
C1_Witness ==
    /\ call.op = "_remove_overlapping_entities"
    /\ Len(call.entities) = 3
    /\ Len(ret) = 2
    /\ \E i, j \in 1..3 : i # j /\ Overlaps(call.entities[i], call.entities[j])

\* ---- C2: for a fixed secret key, sanitize_text called twice on the same
\* text with the same privacy level and preserve_format, with other sanitize
\* and detect calls in between and from any starting vault, returns the same
\* sanitized text and the same replacement for every identical original value.
C2_RepeatAgrees ==
    call.op = "second" =>
        /\ ret.sanitized_text = first.sanitized_text
        /\ \A i \in 1..Len(first.entities_found), j \in 1..Len(ret.entities_found) :
              first.entities_found[i].original = ret.entities_found[j].original
                  => first.entities_found[i].replacement
                         = ret.entities_found[j].replacement

\* C2's case: the second call comes after another call, it replaces two
\* values by tokens, and one of the tokens is one the vault was loaded with
\* (it is not the token of the service's key).
C2_Witness ==
    /\ call.op = "second"
    /\ calls = 3
    /\ ~call.preserve_format
    /\ Len(ret.entities_found) >= 2
    /\ \E j \in 1..Len(ret.entities_found) :
          ret.entities_found[j].replacement
              # generate_deterministic_token(secret_key, ret.entities_found[j].original,
                                             ret.entities_found[j].entity_type)

\* w occurs in t as a substring.
C3_Occurs(w, t) == \E p \in 0..(Len(t) - Len(w)) : Slice(t, p, p + Len(w)) = w

\* ---- C3, as claimed: after sanitize_text, the original text of every
\* retained span occurs nowhere in the sanitized text.
C3_NoOriginalRemains ==
    call.op = "sanitize_text" =>
        \A i \in 1..Len(ret.entities_found) :
            ~C3_Occurs(ret.entities_found[i].original, ret.sanitized_text)

\* The change of length made by the first n audit entries that lie to the
\* left of offset start.
RECURSIVE C3_Shift(_, _, _)
C3_Shift(found, start, n) ==
    IF n = 0 THEN 0
    ELSE C3_Shift(found, start, n - 1)
             + (IF found[n].position.start < start
                THEN Len(found[n].replacement)
                         - (found[n].position.end - found[n].position.start)
                ELSE 0)

\* ---- C3, amended: after sanitize_text, for every retained span, the
\* sanitized text holds the span's replacement at the span's place (its start
\* moved by the length changes of the spans to its left), and the replacement
\* differs from the span's original text.
C3_SpansReplaced ==
    call.op = "sanitize_text" =>
        \A i \in 1..Len(ret.entities_found) :
            LET e == ret.entities_found[i]
                at == e.position.start
                          + C3_Shift(ret.entities_found, e.position.start,
                                     Len(ret.entities_found))
            IN  /\ Slice(ret.sanitized_text, at, at + Len(e.replacement)) = e.replacement
                /\ e.replacement # e.original

\* C3's case: two spans are replaced, the right one a phone number replaced
\* by the substitution, the left one by a token of another length.
C3_Witness ==
    /\ call.op = "sanitize_text"
    /\ call.preserve_format
    /\ Len(ret.entities_found) = 2
    /\ ret.entities_found[1].entity_type = "PHONE"
    /\ CipherApplies(ret.entities_found[1].original, "PHONE")
    /\ C3_Shift(ret.entities_found, ret.entities_found[1].position.start, 2) # 0

\* The text rebuilt from the audit entries n, n - 1, ..., 1 (ascending start),
\* from offset pos of the original text on.
RECURSIVE C4_Rebuilt(_, _, _, _)
C4_Rebuilt(text, found, n, pos) ==
    IF n = 0 THEN Slice(text, pos, Len(text))
    ELSE Slice(text, pos, found[n].position.start) \o found[n].replacement
             \o C4_Rebuilt(text, found, n - 1, found[n].position.end)

\* The sum over the first n audit entries of the replacement's length minus
\* the span's length.
RECURSIVE C4_Growth(_, _)
C4_Growth(found, n) ==
    IF n = 0 THEN 0
    ELSE C4_Growth(found, n - 1) + Len(found[n].replacement)
             - (found[n].position.end - found[n].position.start)

\* ---- C4: the text returned by sanitize_text is the original text with each
\* retained span replaced by its replacement and every other character
\* unchanged and in order; the spans are replaced in descending start order;
\* the length is the original length minus the spans' lengths plus the
\* replacements' lengths.
C4_SplicedRightToLeft ==
    call.op = "sanitize_text" =>
        LET found == ret.entities_found
        IN  /\ ret.sanitized_text = C4_Rebuilt(call.text, found, Len(found), 0)
            /\ \A i \in 1..(Len(found) - 1) :
                  found[i].position.start > found[i + 1].position.start
            /\ Len(ret.sanitized_text) = Len(call.text) + C4_Growth(found, Len(found))

\* C4's case: two spans are replaced and the text changes its length.
C4_Witness ==
    /\ call.op = "sanitize_text"
    /\ Len(ret.entities_found) >= 2
    /\ \A i \in 1..Len(ret.entities_found) :
          Len(ret.entities_found[i].replacement)
              # ret.entities_found[i].position.end - ret.entities_found[i].position.start
    /\ Len(ret.sanitized_text) # Len(call.text)

\* ---- C5: in sanitize_text the replacement of a retained span is the
\* output of the substitution exactly when preserve_format is true, the type
\* is PHONE, CREDIT_CARD or SSN and the digit count matches; in every other
\* case it is the token get_or_create_replacement returns for the type and
\* value, whatever the vault was loaded with.
C5_ReplacementChoice ==
    call.op = "sanitize_text" =>
        \A i \in 1..Len(ret.entities_found) :
            LET e == ret.entities_found[i]
            IN  IF /\ call.preserve_format
                   /\ e.entity_type \in {"PHONE", "CREDIT_CARD", "SSN"}
                   /\ CipherApplies(e.original, e.entity_type)
                THEN e.replacement
                         = apply_format_preserving_encryption(secret_key, e.original,
                                                              e.entity_type)
                ELSE e.replacement
                         = get_or_create_replacement(Vault, secret_key, e.original,
                                                     e.entity_type).ret

\* ---- C6: for every PHONE, CREDIT_CARD or SSN value to which the cipher
\* applies, the output has the input's length, every non-digit character of
\* the input unchanged at its position, and a digit at every digit position.
C6_LayoutPreserved ==
    (call.op = "apply_format_preserving_encryption"
        /\ CipherApplies(call.text, call.entity_type)) =>
        /\ Len(ret) = Len(call.text)
        /\ \A i \in 1..Len(call.text) :
              IF call.text[i] \in Digits THEN ret[i] \in Digits
              ELSE ret[i] = call.text[i]

\* The per-type shift named by the claim.
C7_ShiftOf == [PHONE |-> 3, CREDIT_CARD |-> 2, SSN |-> 1]

\* ---- C7: when the cipher applies, the digits of the output are the digits
\* of the input, each d replaced by (d + k) mod 10 with k fixed per type
\* (PHONE 3, CREDIT_CARD 2, SSN 1); the number of digits is unchanged and no
\* output digit equals the input digit at the same digit index.
C7_DigitsShifted ==
    (call.op = "apply_format_preserving_encryption"
        /\ CipherApplies(call.text, call.entity_type)) =>
        LET din == DigitsOf(call.text)
            dout == DigitsOf(ret)
            k == C7_ShiftOf[call.entity_type]
        IN  /\ Len(dout) = Len(din)
            /\ \A i \in 1..Len(din) :
                  /\ DigitVal(dout[i]) = (DigitVal(din[i]) + k) % 10
                  /\ dout[i] # din[i]

\* C7's case: the substitution applied to a card number in which a digit
\* wraps around (9 becomes 1).
C7_Witness ==
    /\ call.op = "apply_format_preserving_encryption"
    /\ call.entity_type = "CREDIT_CARD"
    /\ CipherApplies(call.text, call.entity_type)
    /\ \E i \in 1..Len(DigitsOf(call.text)) :
          DigitsOf(call.text)[i] = "9" /\ DigitsOf(ret)[i] = "1"

\* The (value, entity type) pairs a call's pair is compared with.
C8_Pairs ==
    {[original_text |-> v, entity_type |-> ty] :
        v \in { <<"a", "@", "b", ".", "c", "o">>, <<"A", "@", "B", ".", "c", "o">>,
                <<"J", "o", "h", "n">>, <<"j", "o", "h", "n">> },
        ty \in {"EMAIL", "PERSON", "ORG"}}

\* ---- C8: two (entity type, value) pairs have the same vault key if and
\* only if the types are equal and the values are equal ignoring case;
\* get_or_create_replacement returns the same token for values that differ
\* only in case.
C8_KeyIffSameNormalized ==
    call.op = "get_or_create_replacement" =>
        \A v \in C8_Pairs :
            LET same == /\ v.entity_type = call.entity_type
                        /\ Lower(v.original_text) = Lower(call.original_text)
            IN  /\ (VaultKey(v.original_text, v.entity_type)
                        = VaultKey(call.original_text, call.entity_type)) <=> same
                /\ same => get_or_create_replacement(Vault, secret_key, v.original_text,
                                                     v.entity_type).ret = ret

\* C8's case: the token of an upper-case address is asked for after a text
\* with a name and the lower-case address was sanitized, and it is the token
\* the lower-case address got.
C8_Witness ==
    /\ call.op = "get_or_create_replacement"
    /\ call.original_text # Lower(call.original_text)
    /\ VaultKey(<<"J", "o", "h", "n">>, "PERSON") \in DOMAIN prev.token_map
    /\ VaultKey(call.original_text, call.entity_type) \in DOMAIN prev.token_map
    /\ ret = prev.token_map[VaultKey(call.original_text, call.entity_type)]

\* ---- C9: get_or_create_replacement on a key in the vault returns the
\* stored token and changes neither the mapping nor the store; on a key not
\* in the vault it adds that one key with the derived token, saves the whole
\* mapping and returns the derived token.
C9_HitOrInsert ==
    call.op = "get_or_create_replacement" =>
        LET k == VaultKey(call.original_text, call.entity_type)
            derived == generate_deterministic_token(secret_key, call.original_text,
                                                    call.entity_type)
        IN  IF k \in DOMAIN prev.token_map
            THEN /\ ret = prev.token_map[k]
                 /\ token_map = prev.token_map
                 /\ store = prev.store
            ELSE /\ DOMAIN token_map = DOMAIN prev.token_map \cup {k}
                 /\ \A x \in DOMAIN prev.token_map : token_map[x] = prev.token_map[x]
                 /\ token_map[k] = derived
                 /\ store = token_map
                 /\ ret = derived

\* C9's case: a key that is not in a vault that holds other keys.
C9_Witness ==
    /\ call.op = "get_or_create_replacement"
    /\ prev.token_map # NoMap
    /\ VaultKey(call.original_text, call.entity_type) \notin DOMAIN prev.token_map
    /\ store # prev.store

\* ---- C10: within a process, across sanitize_text,
\* detect_sensitive_entities and get_or_create_replacement calls, no key is
\* removed from the mapping and the token of a key never changes.
C10_AppendOnly ==
    [][call'.op # "restart" =>
          \A k \in DOMAIN token_map :
              k \in DOMAIN token_map' /\ token_map'[k] = token_map[k]]_vars

\* C10's case: a call adds a key to a vault that was loaded at a restart and
\* holds a token that is not the token of the service's key.
C10_Witness ==
    /\ call.op = "sanitize_text"
    /\ prev.token_map # NoMap
    /\ DOMAIN token_map # DOMAIN prev.token_map
    /\ \E v \in SessionValues :
          /\ VaultKey(v.original_text, v.entity_type) \in DOMAIN prev.token_map
          /\ prev.token_map[VaultKey(v.original_text, v.entity_type)]
                 # generate_deterministic_token(secret_key, v.original_text,
                                                v.entity_type)

\* The (normalized value, entity type) pairs of the entries a vault of Spec
\* can hold.
C11_Pairs ==
    { [original_text |-> <<"1", "-", "5", "5", "5", "-", "1", "2", "3", "-", "4", "5",
                           "6", "7">>, entity_type |-> "PHONE"],
      [original_text |-> <<"a", "@", "b", ".", "c", "o">>, entity_type |-> "EMAIL"],
      [original_text |-> <<"j", "o", "h", "n">>, entity_type |-> "PERSON"],
      [original_text |-> <<"j", "o", "h", "n">>, entity_type |-> "ORG"] }

\* ---- C11: in every reachable state, also after a restart that loads the
\* persisted mapping, the token of every vault entry is
\* generate_deterministic_token of the service's current secret key and the
\* entry's entity type and normalized value.
C11_TokensOfCurrentKey ==
    \A v \in C11_Pairs :
        VaultKey(v.original_text, v.entity_type) \in DOMAIN token_map =>
            token_map[VaultKey(v.original_text, v.entity_type)]
                = generate_deterministic_token(secret_key, v.original_text,
                                               v.entity_type)

\* ---- C12: when no secret key is configured the service is not
\* constructed: it never serves a call, and never holds a token, with a key
\* that was not supplied from outside.
C12_KeySuppliedFromOutside ==
    (calls > 0 \/ token_map # NoMap) => (env_key # Unset /\ secret_key = env_key)

\* ---- C15: a detect_sensitive_entities call leaves the vault's mapping and
\* its persisted store unchanged.
C15_DetectLeavesVault ==
    call.op = "detect_sensitive_entities" =>
        (token_map = prev.token_map /\ store = prev.store)

\* The lists with the elements of s in another order.
C16_Permutations(s) ==
    {[i \in 1..Len(s) |-> s[p[i]]] :
        p \in {q \in [1..Len(s) -> 1..Len(s)] :
                  \A i, j \in 1..Len(s) : i # j => q[i] # q[j]}}

\* ---- C16: the resolver's output depends only on the set of candidate
\* spans: for every permutation of the input list it retains the same spans,
\* also when two candidates have the same start and the same confidence.
C16_OrderIndependent ==
    call.op = "_remove_overlapping_entities" =>
        \A es \in C16_Permutations(call.entities) :
            Range(remove_overlapping_entities(es)) = Range(ret)

\* Candidates i and j of the list start at the same offset, i has the higher
\* confidence, and no retained span that starts earlier overlaps them.
C17_Case(entities, retained, i, j) ==
    /\ i # j
    /\ entities[i].start = entities[j].start
    /\ entities[i].confidence > entities[j].confidence
    /\ \A r \in Range(retained) :
          r.start < entities[i].start =>
              ~Overlaps(entities[i], r) /\ ~Overlaps(entities[j], r)

C18_ReturnedCountsMonotone ==
    \A i, j \in 1..Len(first) : i <= j => Len(first[i]) <= Len(first[j])

\* No two candidates of the list overlap.
C18_NoOverlap(cands) ==
    \A i, j \in 1..Len(cands) : i # j => ~Overlaps(cands[i], cands[j])

\* ---- C18, amended: the number of candidate spans found before overlap
\* resolution under strict is at least the number under standard, which is at
\* least the number under minimal; and the number of spans returned does not
\* decrease from one level to a stricter one under which no two candidates
\* overlap.
C18_CandidateCountsMonotone ==
    \A i, j \in 1..Len(first) :
        i <= j =>
            With(Candidates(nlp, call.text, LevelOrder[i]), LAMBDA lower :
                With(Candidates(nlp, call.text, LevelOrder[j]), LAMBDA higher :
                    /\ Len(lower) <= Len(higher)
                    /\ C18_NoOverlap(higher) => Len(first[i]) <= Len(first[j])))

\* C18's case: a text submitted at the three levels, for which each level
\* returns more spans than the one before.
C18_Witness ==
    /\ call.op = "detect_sensitive_entities"
    /\ Len(first) = 3
    /\ Len(first[1]) >= 1
    /\ Len(first[1]) < Len(first[2])
    /\ Len(first[2]) < Len(first[3])

\* The score of a result is the one of the formula, and within its range.
C19_ScoreOf(result) ==
    LET n == Len(result.entities_found)
    IN  /\ result.privacy_score = (IF 50 + 10 * n < 100 THEN 50 + 10 * n ELSE 100)
        /\ n = 0 => result.privacy_score = 50
        /\ n >= 5 => result.privacy_score = 100
        /\ result.privacy_score >= 50
        /\ result.privacy_score <= 100

\* ---- C19: the privacy score sanitize_text returns is min(1.0, 0.5 + 0.1 n)
\* for n audit entries (here in hundredths): 0.5 for n = 0, 1.0 for every
\* n >= 5, within [0.5, 1.0], and of two calls the one with at least as many
\* audit entries has at least as high a score.
C19_PrivacyScore ==
    /\ call.op \in {"first", "second"} => C19_ScoreOf(ret)
    /\ call.op = "second" =>
          (Len(first.entities_found) <= Len(ret.entities_found)
              => first.privacy_score <= ret.privacy_score)

\* C19's case: a call that replaced four spans and scored 0.9, then a call
\* that replaced six and scored 1.0.
C19_Witness ==
    /\ call.op = "second"
    /\ Len(first.entities_found) = 4
    /\ first.privacy_score = 90
    /\ Len(ret.entities_found) = 6
    /\ ret.privacy_score = 100

\* By how much the replacements of the entries that start before offset
\* start have lengthened the text.
RECURSIVE C20_ShiftBefore(_, _, _)
C20_ShiftBefore(found, n, start) ==
    IF n = 0 THEN 0
    ELSE C20_ShiftBefore(found, n - 1, start)
            + (IF found[n].position.start < start
               THEN Len(found[n].replacement)
                        - (found[n].position.end - found[n].position.start)
               ELSE 0)

\* ---- C20: sanitize_text returns exactly one audit entry per span that
\* detect_sensitive_entities retains, in descending start order; an entry's
\* original is the input text between the entry's offsets, its replacement is
\* the string that stands in the returned text in place of the span, and its
\* entity type and confidence are the span's.
C20_AuditEntries ==
    call.op = "sanitize_text" =>
        With(detect_sensitive_entities(prev, secret_key, nlp, call.text,
                                       call.privacy_level).ret, LAMBDA spans :
            LET found == ret.entities_found
            IN  /\ Len(found) = Len(spans)
                /\ \A k \in 1..Len(spans) :
                      Cardinality({i \in 1..Len(found) :
                          /\ found[i].position.start = spans[k].start
                          /\ found[i].position.end = spans[k].end
                          /\ found[i].entity_type = spans[k].entity_type
                          /\ found[i].confidence = spans[k].confidence}) = 1
                /\ \A i \in 1..(Len(found) - 1) :
                      found[i].position.start > found[i + 1].position.start
                /\ \A i \in 1..Len(found) :
                      LET e == found[i]
                          at == e.position.start
                                  + C20_ShiftBefore(found, Len(found), e.position.start)
                      IN  /\ e.original
                                = Slice(call.text, e.position.start, e.position.end)
                          /\ Slice(ret.sanitized_text, at, at + Len(e.replacement))
                                = e.replacement)

\* C20's case: with preserve_format, two spans are replaced, one by the
\* substitution's output and one by its token.
C20_Witness ==
    /\ call.op = "sanitize_text"
    /\ call.preserve_format
    /\ Len(ret.entities_found) = 2
    /\ \E i, j \in 1..2 :
          /\ ret.entities_found[i].entity_type = "PHONE"
          /\ CipherApplies(ret.entities_found[i].original, "PHONE")
          /\ ret.entities_found[i].replacement
                # get_or_create_replacement(Vault, secret_key,
                      ret.entities_found[i].original, "PHONE").ret
          /\ ret.entities_found[j].entity_type = "PERSON"
          /\ ret.entities_found[j].replacement
                = get_or_create_replacement(Vault, secret_key,
                      ret.entities_found[j].original, "PERSON").ret

\* ---- C13: under every interleaving of two concurrent
\* get_or_create_replacement calls for the same new type and value (in any
\* spelling of its letters), both calls return the same token, the mapping
\* ends with exactly one entry for the key, holding that token, and the file
\* ends with the whole mapping; at no point does the mapping, a buffer or the
\* file hold another token for the key.
C13_SameKeySameToken ==
    (\A t \in Threads : threads[t].key = threads[1].key /\ threads[t].key # <<>>) =>
        LET k == threads[1].key
            tokens == {threads[t].ret : t \in {u \in Threads : threads[u].pc = "done"}}
                        \cup {token_map[x] : x \in {k} \cap DOMAIN token_map}
                        \cup {file.chunks[i].token :
                                 i \in {j \in 1..Len(file.chunks) :
                                           file.chunks[j].key = k}}
                        \cup UNION {{threads[t].buffer[i].token :
                                        i \in {j \in 1..Len(threads[t].buffer) :
                                                  threads[t].buffer[j].key = k}} :
                                    t \in Threads}
        IN  /\ Cardinality(tokens) <= 1
            /\ (\A t \in Threads : threads[t].pc = "done") =>
                  /\ threads[1].ret = threads[2].ret
                  /\ k \in DOMAIN token_map
                  /\ token_map[k] = threads[1].ret
                  /\ Cardinality({i \in 1..Len(inserted) : inserted[i] = k}) = 1
                  /\ file = [exists |-> TRUE, chunks |-> Dumped(inserted, token_map)]

\* C13's case: the two threads asked for one value in two spellings, both
\* found the key absent, both stored and saved, and both have returned.
C13_Witness ==
    /\ call.op = "threads"
    /\ \A t \in Threads : threads[t].pc = "done" /\ threads[t].buffer # <<>>
    /\ threads[1].key = threads[2].key
    /\ threads[1].original_text # threads[2].original_text
    /\ threads[1].ret = threads[2].ret

\* ---- C14: at every point of every interleaving of concurrent
\* get_or_create_replacement calls (so also where the process may stop),
\* token_map.json, once it exists, holds a complete mapping that
\* self.token_map was at some earlier moment, never an empty or partial one,
\* and once all calls have ended it holds every inserted key.
C14_FileAlwaysComplete ==
    call.op = "threads" =>
        /\ file.exists =>
              \E n \in 0..Len(inserted) :
                  file.chunks = Dumped(SubSeq(inserted, 1, n), token_map)
        /\ (\A t \in Threads : threads[t].pc \in {"done", "raised"}) =>
              (inserted # <<>> =>
                  file = [exists |-> TRUE, chunks |-> Dumped(inserted, token_map)])

\* The spans the patterns alone give for a text at a level, from vault v:
\* the pattern matches of the enabled types with their replacements, resolved.
C21_PatternSpans(v, key, text, privacy_level) ==
    With(PatternCandidates(text, privacy_configs[privacy_level]), LAMBDA cands :
        remove_overlapping_entities(Attach(v, key, cands, Len(cands)).entities))

\* ---- C21: when the tagger is unavailable (nlp is None),
\* detect_sensitive_entities returns, and sanitize_text replaces, exactly the
\* resolved pattern spans of the entity types the privacy level enables: each
\* is a match of the pattern of its type, with the patterns' confidence.
C21_PatternOnlyWithoutTagger ==
    (nlp = "none" /\ call.op \in {"detect_sensitive_entities", "sanitize_text"}) =>
        With(C21_PatternSpans(prev, secret_key, call.text, call.privacy_level),
             LAMBDA spans :
            /\ \A i \in 1..Len(spans) :
                  /\ spans[i].confidence = PatternConfidence
                  /\ spans[i].entity_type \in Range(patterns)
                  /\ spans[i].entity_type
                        \in Range(privacy_configs[call.privacy_level].entities)
                  /\ \E m \in Range(Finditer(spans[i].entity_type, call.text, 0)) :
                        m.start = spans[i].start /\ m.end = spans[i].end
            /\ call.op = "detect_sensitive_entities" => ret = spans
            /\ call.op = "sanitize_text" =>
                  /\ Len(ret.entities_found) = Len(spans)
                  /\ \A i \in 1..Len(spans) :
                        \E j \in 1..Len(ret.entities_found) :
                            LET e == ret.entities_found[j]
                            IN  /\ e.position.start = spans[i].start
                                /\ e.position.end = spans[i].end
                                /\ e.entity_type = spans[i].entity_type
                                /\ e.confidence = spans[i].confidence
                                /\ e.original = spans[i].text)

\* C21's case: without the tagger, a text with a name the tagger knows and a
\* phone number is submitted at the standard level, and the phone number
\* alone is detected.
C21_Witness ==
    /\ nlp = "none"
    /\ call.op = "detect_sensitive_entities"
    /\ call.privacy_level = "standard"
    /\ StartsWith(call.text, 0, <<"J", "o", "h", "n">>)
    /\ Len(ret) = 1
    /\ ret[1].entity_type = "PHONE"

\* ---- C22: when the tagger is loaded and raises on the text, sanitize_text
\* does not raise: it returns what detection by the patterns alone gives for
\* the text.
C22_TaggerErrorContained ==
    (call.op = "sanitize_text" /\ TaggerRaises(nlp, call.text) /\ prev.disk = "ok") =>
        /\ call.raised = NoException
        /\ ret = sanitize_text(prev, secret_key, "none", call.text,
                               call.privacy_level, call.preserve_format).ret

\* ---- C24: whenever get_or_create_replacement returns a token, the file
\* holds that token under the value's key at that moment, also after an
\* earlier call for the key that raised while saving; and whenever
\* sanitize_text returns, the file holds every token it put into the text.
C24_ReturnedMeansPersisted ==
    /\ (call.op = "get_or_create_replacement" /\ call.raised = NoException) =>
          LET k == VaultKey(call.original_text, call.entity_type)
          IN  k \in DOMAIN store /\ store[k] = ret
    /\ (call.op = "sanitize_text" /\ call.raised = NoException) =>
          \A i \in 1..Len(ret.entities_found) :
              LET e == ret.entities_found[i]
                  k == VaultKey(e.original, e.entity_type)
              IN  (k \in DOMAIN token_map /\ e.replacement = token_map[k])
                      => (k \in DOMAIN store /\ store[k] = e.replacement)

\* What C23 says of the result of one text of a batch: a text whose
\* sanitize_text raised has a result with the error, the original text and no
\* entity; any other text has the result a single sanitize_text gives for it;
\* and a text on which neither the tagger nor the file fails has not failed.
C23_ItemIsolated(result, text, privacy_level, preserve_format) ==
    With(sanitize_text([prev EXCEPT !.disk = "ok"], secret_key, nlp, text,
                       privacy_level, preserve_format), LAMBDA single :
        LET failed == "error" \in DOMAIN result
        IN  /\ failed =>
                  /\ \/ ("original_text" \in DOMAIN result
                            /\ result.original_text = text)
                     \/ ("sanitized_text" \in DOMAIN result
                            /\ result.sanitized_text = text)
                  /\ "entities_found" \in DOMAIN result => result.entities_found = <<>>
                  /\ single.raised # NoException \/ prev.disk # "ok"
            /\ ~failed =>
                  /\ single.raised = NoException
                  /\ result = ItemResult(single.ret, privacy_level)
            /\ (single.raised = NoException /\ prev.disk = "ok") => ~failed)

\* The batch endpoint of privacy_service.py answers N requests with N
\* results, in the order of the requests.
C23_ServiceBatch ==
    call.op = "batch_anonymize_text" =>
        /\ ret.status = 200
        /\ Len(ret.body.results) = Len(call.requests)
        /\ \A i \in 1..Len(call.requests) :
              C23_ItemIsolated(ret.body.results[i], call.requests[i].text,
                               call.requests[i].privacy_level,
                               call.requests[i].preserve_format)

\* The batch endpoint of main.py answers N texts with N results, in the
\* order of the texts.
C23_MainBatch ==
    /\ ret.status = 200
    /\ Len(ret.body.results) = Len(call.request.texts)
    /\ \A i \in 1..Len(call.request.texts) :
          C23_ItemIsolated(ret.body.results[i], call.request.texts[i],
                           call.request.privacy_level, TRUE)

C30_EmptyTextRejected ==
    call.op = "main_anonymize_text" =>
        /\ call.request.text = <<>> =>
              /\ ret.status = 400
              /\ ret.detail = <<"Text is required">>
              /\ ~call.sanitized
        /\ ret.status = 500 =>
              /\ call.sanitized
              /\ sanitize_text(prev, secret_key, nlp, call.request.text,
                               call.request.privacy_level, TRUE).raised # NoException

\* A span without its replacement.
C25_Bare(e) ==
    [text |-> e.text, start |-> e.start, end |-> e.end,
     entity_type |-> e.entity_type, confidence |-> e.confidence]

\* ---- C25: every span detect_sensitive_entities returns for a privacy level
\* has an entity type of the level's list and a confidence of at least the
\* level's threshold; and the spans returned are the resolution of the
\* candidates of the enabled types alone (of all the candidates there are,
\* which are the strict level's, those of an enabled type that reach the
\* threshold), so that a span of another type displaces none of them.
C25_OnlyEnabledTypes ==
    call.op = "detect_sensitive_entities" =>
        LET config == privacy_configs[call.privacy_level]
            enabled(c) == /\ c.entity_type \in Range(config.entities)
                          /\ c.confidence >= config.confidence_threshold
        IN  /\ \A i \in 1..Len(ret) : enabled(ret[i])
            /\ config.confidence_threshold
                  = (CASE call.privacy_level = "minimal" -> 80
                       [] call.privacy_level = "standard" -> 70
                       [] call.privacy_level = "strict" -> 60)
            /\ [i \in 1..Len(ret) |-> C25_Bare(ret[i])]
                  = remove_overlapping_entities(
                        SelectSeq(Candidates(nlp, call.text, "strict"), enabled))

\* C25's case: at the standard level a phone number is returned that an
\* amount, found at the strict level alone, overlaps and starts before.
C25_Witness ==
    /\ call.op = "detect_sensitive_entities"
    /\ call.privacy_level = "standard"
    /\ Len(ret) = 1
    /\ ret[1].entity_type = "PHONE"
    /\ \E c \in Range(Candidates(nlp, call.text, "strict")) :
          /\ c.entity_type = "MONEY"
          /\ c.start < ret[1].start
          /\ Overlaps(c, ret[1])

\* The ways to pick m of the positions 1..n, in ascending order.
C26_Picks(m, n) ==
    {f \in [1..m -> 1..n] : \A i \in 1..(m - 1) : f[i] < f[i + 1]}

C27_KeepsHighestConfidence ==
    call.op = "_remove_overlapping_entities" =>
        \A k \in 1..Len(call.entities) :
            call.entities[k] \notin Range(ret) =>
                \A i \in 1..Len(ret) :
                    Overlaps(call.entities[k], ret[i])
                        => ret[i].confidence >= call.entities[k].confidence

\* ---- C28: in a sequential run in which no save fails, after every completed
\* get_or_create_replacement, detect_sensitive_entities or sanitize_text call
\* the mapping in token_map.json equals the in-memory token map (the service
\* having started from that file, or from an absent file taken as empty).
C28_StoreEqualsTokenMap ==
    call.op \in {"get_or_create_replacement", "detect_sensitive_entities",
                 "sanitize_text"} => store = token_map

\* A call has added a key to a token map that already held one.
C28_Witness ==
    /\ call.op \in {"get_or_create_replacement", "detect_sensitive_entities",
                    "sanitize_text"}
    /\ disk = "ok"
    /\ prev.token_map # NoMap
    /\ DOMAIN token_map # DOMAIN prev.token_map
    /\ store = token_map

\* ---- C29: a sanitize_text call adds to the vault only keys of spans that
\* are retained after overlap resolution and whose replacement in the output
\* is the vault's token: the values of discarded spans and the PHONE,
\* CREDIT_CARD and SSN values replaced through the cipher are not stored.
C29_StoresOnlyTokensUsed ==
    call.op = "sanitize_text" =>
        \A k \in DOMAIN token_map \ DOMAIN prev.token_map :
            \E i \in 1..Len(ret.entities_found) :
                /\ VaultKey(ret.entities_found[i].original,
                            ret.entities_found[i].entity_type) = k
                /\ ret.entities_found[i].replacement = token_map[k]

====
